---- MODULE Spec2Model ----
(***************************************************************************)
(* Model of the tabular cleaning / feature-engineering engine:             *)
(*   data_layer/DatasetManager.py             (the Table Store)            *)
(*   business_layer/DataCleaningController.py (CleaningEngine)             *)
(*   business_layer/FeatureEngineeringController.py (FeatureEngine and the *)
(*                                             undo/redo stacks)           *)
(*   business_layer/LoggingService.py         (Audit Log)                  *)
(*   presentation_layer/DatasetCleanerUI.py   (upload_dataset, dataset_id) *)
(*                                                                         *)
(* DataFrames are objects on a heap: get_dataframe() hands out a reference *)
(* to the live DataFrame and most operations assign columns to it in       *)
(* place, so object identity is part of the state.  Floating point values  *)
(* are fixed-point integers with SCALE units per 1.0; ln, sqrt and the PCA *)
(* projection are kept as symbolic cells.                                  *)
(***************************************************************************)
EXTENDS Integers, Sequences, FiniteSets, TLC

VARIABLES heap, current_dataset, dataset_id, undo_stack, redo_stack,
          local_logs, pc, result, c1, run, cleaned, deduped, calls,
          database_up

\* heap            the DataFrame objects, by reference
\* current_dataset the reference held by DatasetManager.current_dataset.data
\* dataset_id      DatasetCleanerUI.dataset_id (NoDataset for None)
\* undo_stack, redo_stack   FeatureEngineeringController's stacks of references
\* local_logs      LoggingService.local_logs
\* pc, result      whether a handler has returned, and what it returned
\* c1, run, cleaned, deduped  history of the calls made (see "history variables")
\* calls           the upload / forward / cleaning calls made so far
\* database_up     whether insert_dataset succeeds in this session
vars == <<heap, current_dataset, dataset_id, undo_stack, redo_stack,
          local_logs, pc, result, c1, run, cleaned, deduped, calls,
          database_up>>

(* ---------------------------- bounds ----------------------------------- *)
MaxDepth == 3      \* |undo_stack| + |redo_stack| explored
MaxLogs  == 3      \* entries of local_logs explored
MaxCols  == 5      \* columns of a table explored
MaxRows  == 5      \* rows of the tables auto_clean is explored on
MaxCalls == 3      \* calls of upload / forward / cleaning operations explored

SCALE == 100       \* fixed-point units per 1.0
MaxExact == 20000  \* largest magnitude (in units) the model computes with

(* ---------------------------- sequences -------------------------------- *)
Range(s) == {s[i] : i \in DOMAIN s}

Last(s) == s[Len(s)]

Front(s) == SubSeq(s, 1, Len(s) - 1)

RECURSIVE SelectIdx(_, _, _)
\* the positions i >= from of s, in order, for which keep[i] holds
SelectIdx(keep, n, from) ==
  IF from > n THEN <<>>
  ELSE IF keep[from] THEN <<from>> \o SelectIdx(keep, n, from + 1)
  ELSE SelectIdx(keep, n, from + 1)

RECURSIVE SumSeq(_)
SumSeq(s) == IF s = <<>> THEN 0 ELSE Head(s) + SumSeq(Tail(s))

RECURSIVE Insert(_, _)
\* insertion of x into the ascending sequence s
Insert(x, s) ==
  IF s = <<>> THEN <<x>>
  ELSE IF x <= Head(s) THEN <<x>> \o s
  ELSE <<Head(s)>> \o Insert(x, Tail(s))

RECURSIVE SortAsc(_)
SortAsc(s) == IF s = <<>> THEN <<>> ELSE Insert(Head(s), SortAsc(Tail(s)))

Abs(x) == IF x < 0 THEN -x ELSE x

\* floor division that also rounds toward minus infinity for negatives
Div(a, b) == IF a >= 0 THEN a \div b ELSE -((-a + b - 1) \div b)

RECURSIVE ISqrtIn(_, _, _)
\* the largest r in lo..hi with r * r <= n (bisection)
ISqrtIn(n, lo, hi) ==
  IF lo >= hi THEN lo
  ELSE LET mid == (lo + hi + 1) \div 2
       IN IF mid * mid <= n THEN ISqrtIn(n, mid, hi) ELSE ISqrtIn(n, lo, mid - 1)

\* integer square root
ISqrt(n) == ISqrtIn(n, 0, IF n < 40000 THEN n ELSE 40000)

Digit(d) ==
  CASE d = 0 -> "0" [] d = 1 -> "1" [] d = 2 -> "2" [] d = 3 -> "3"
    [] d = 4 -> "4" [] d = 5 -> "5" [] d = 6 -> "6" [] d = 7 -> "7"
    [] d = 8 -> "8" [] d = 9 -> "9"

(* ------------------------------ cells ---------------------------------- *)
\* a cell: the missing marker (NaN), a number, a string, or a symbolic
\* ln(v) / sqrt(v) / principal-component value
NA == [t |-> "na", v |-> 0, s |-> <<>>]

\* a number in fixed point; beyond MaxExact it is kept but no longer
\* computed with
Num(n) ==
  [t |-> IF -MaxExact <= n /\ n <= MaxExact THEN "num" ELSE "big", v |-> n,
   s |-> <<>>]

\* x is the string as a sequence of characters
Str(x) == [t |-> "str", v |-> 0, s |-> x]

Sym(tag, n) == [t |-> tag, v |-> n, s |-> <<>>]

IsNA(c) == c.t = "na"

(* ------------------------------ tables --------------------------------- *)
\* a column: name, dtype kind ("i" int, "f" float, "b" bool, "O" object),
\* cells
Col(name, dtype, cells) == [name |-> name, dtype |-> dtype, cells |-> cells]

\* a DataFrame: ordered columns and the length n of its row index
DF(cols, n) == [cols |-> cols, n |-> n]

EmptyDF == DF(<<>>, 0)

\* DataFrame.empty: any axis has length 0
IsEmpty(df) == df.n = 0 \/ Len(df.cols) = 0

Names(df) == [i \in DOMAIN df.cols |-> df.cols[i].name]

\* the positions of the columns called name (column in df.columns,
\* df[column])
Sel(df, name) == {i \in DOMAIN df.cols : df.cols[i].name = name}

HasCol(df, name) == Sel(df, name) # {}

\* df[column] is a Series only when exactly one column has that name
IsSeries(df, name) == Cardinality(Sel(df, name)) = 1

ColAt(df, name) == df.cols[CHOOSE i \in Sel(df, name) : TRUE]

\* dtype.kind in "biufc"
IsNumericKind(col) == col.dtype \in {"i", "f", "b"}

\* df[name] = cells : replaces the column in place, or appends it
SetCol(df, name, dtype, cells) ==
  IF HasCol(df, name)
  THEN DF([i \in DOMAIN df.cols |->
             IF df.cols[i].name = name THEN Col(name, dtype, cells)
             ELSE df.cols[i]], df.n)
  ELSE DF(Append(df.cols, Col(name, dtype, cells)), df.n)

Row(df, r) == [i \in DOMAIN df.cols |-> df.cols[i].cells[r]]

NoDuplicateNames(df) ==
  \A i, j \in DOMAIN df.cols : df.cols[i].name = df.cols[j].name => i = j

(* --------------------------- column statistics ------------------------- *)
\* a number the model knows exactly (fixed point)
IsNum(c) == c.t = "num"

\* a number the model keeps symbolic (ln, principal component, or a value
\* derived from one)
IsOpaque(c) == c.t \notin {"na", "num", "str"}

HasOpaque(cells) == \E i \in DOMAIN cells : IsOpaque(cells[i])

\* the non-missing values of a numeric column, in row order
Values(cells) ==
  LET keep == [i \in DOMAIN cells |-> IsNum(cells[i])]
      idx  == SelectIdx(keep, Len(cells), 1)
  IN [k \in DOMAIN idx |-> cells[idx[k]].v]

CountNA(cells) == Cardinality({i \in DOMAIN cells : IsNA(cells[i])})

AllNA(cells) == \A i \in DOMAIN cells : IsNA(cells[i])

\* Series.mean() / StandardScaler.mean_ (NaN skipped); vals is non-empty
Mean(vals) == Div(SumSeq(vals), Len(vals))

\* population standard deviation (StandardScaler uses ddof = 0)
Std(vals) ==
  LET m  == Mean(vals)
      sq == [i \in DOMAIN vals |-> Div((vals[i] - m) * (vals[i] - m), Len(vals))]
  IN ISqrt(SumSeq(sq))

MinOf(vals) == CHOOSE x \in Range(vals) : \A y \in Range(vals) : x <= y

MaxOf(vals) == CHOOSE x \in Range(vals) : \A y \in Range(vals) : x >= y

\* numpy quantile num/den with linear interpolation, vals non-empty
QuantileFrac(vals, num, den) ==
  LET s   == SortAsc(vals)
      pos == (Len(s) - 1) * num
      lo  == pos \div den + 1
      rem == pos % den
  IN IF rem = 0 THEN s[lo]
     ELSE s[lo] + Div((s[lo + 1] - s[lo]) * rem, den)

Quantile(vals, q) == QuantileFrac(vals, q, 100)

\* sklearn _handle_zeros_in_scale: a zero scale is replaced by 1.0
HandleZeros(scale) == IF scale = 0 THEN SCALE ELSE scale

\* a value derived by op from a cell the model cannot evaluate
Opaque(op, c) ==
  IF IsNA(c) THEN NA ELSE [t |-> op \o "(" \o c.t \o ")", v |-> c.v, s |-> <<>>]

\* (x - center) / scale applied to every cell; NaN stays NaN
Rescale(op, cells, center, scale) ==
  [i \in DOMAIN cells |->
     IF IsNA(cells[i]) THEN NA
     ELSE Num(Div((cells[i].v - center) * SCALE, scale))]

\* cell-wise map that falls back to opaque values when the column holds
\* values the model cannot evaluate, and to NaN when it holds no value
Numeric(op, cells, f(_)) ==
  IF HasOpaque(cells) THEN [i \in DOMAIN cells |-> Opaque(op, cells[i])]
  ELSE IF Values(cells) = <<>> THEN [i \in DOMAIN cells |-> NA]
  ELSE f(cells)

(* --------------------------- transform primitives ---------------------- *)
\* StandardScaler().fit_transform
StandardScale(cells) ==
  LET f(cs) == Rescale("std", cs, Mean(Values(cs)), HandleZeros(Std(Values(cs))))
  IN Numeric("std", cells, f)

\* MinMaxScaler().fit_transform
MinMaxScale(cells) ==
  LET f(cs) == Rescale("minmax", cs, MinOf(Values(cs)),
                       HandleZeros(MaxOf(Values(cs)) - MinOf(Values(cs))))
  IN Numeric("minmax", cells, f)

\* RobustScaler().fit_transform: median and inter-quartile range
RobustScale(cells) ==
  LET f(cs) == Rescale("robust", cs, Quantile(Values(cs), 50),
                       HandleZeros(Quantile(Values(cs), 75) - Quantile(Values(cs), 25)))
  IN Numeric("robust", cells, f)

\* np.log of a fixed-point argument: ln(1.0) = 0, anything else symbolic
Ln(arg) == IF arg = SCALE THEN Num(0) ELSE Sym("ln", arg)

\* the float64 k * 2^54: the floats around it are 4 apart or more, so adding
\* 1 to it gives it back
Huge(k) == [t |-> "huge", v |-> k, s |-> <<>>]

\* a float column made of such floats, of 0.0 and of missing cells
IsHugeColumn(cells) ==
  /\ \E i \in DOMAIN cells : cells[i].t = "huge"
  /\ \A i \in DOMAIN cells :
       cells[i].t \in {"huge", "na"} \/ (cells[i].t = "num" /\ cells[i].v = 0)

\* log_transform_column on such a column, in units of 2^54: with a minimum
\* m < 0 the shift abs(m) + 1 is abs(m), so the minimum is shifted to 0.0 and
\* np.log gives -inf; 0.0 + abs(m) and k + abs(m) are exact
LogTransformHuge(cells) ==
  LET units(c) == IF c.t = "huge" THEN c.v ELSE 0
      m == CHOOSE k \in {units(cells[i]) : i \in {j \in DOMAIN cells : ~IsNA(cells[j])}} :
             \A i \in DOMAIN cells : IsNA(cells[i]) \/ k <= units(cells[i])
      shifted(c) == IF m < 0 THEN units(c) - m ELSE units(c)
  IN [i \in DOMAIN cells |->
        IF IsNA(cells[i]) THEN NA
        ELSE IF shifted(cells[i]) > 0 THEN Sym("ln(huge)", shifted(cells[i]))
        ELSE IF m = 0 THEN Num(0)
        ELSE Sym("-inf", 0)]

\* the shift log_transform_column adds before np.log (0: none)
LogShift(cells) ==
  IF Values(cells) # <<>> /\ MinOf(Values(cells)) <= 0
  THEN Abs(MinOf(Values(cells))) + SCALE ELSE 0

LogTransform(cells) ==
  LET f(cs) == [i \in DOMAIN cs |->
                  IF IsNA(cs[i]) THEN NA ELSE Ln(cs[i].v + LogShift(cs))]
  IN IF IsHugeColumn(cells) THEN LogTransformHuge(cells)
     ELSE Numeric("ln", cells, f)

\* the shift sqrt_transform_column adds before np.sqrt (0: none)
SqrtShift(cells) ==
  IF Values(cells) # <<>> /\ MinOf(Values(cells)) < 0
  THEN Abs(MinOf(Values(cells))) ELSE 0

SqrtTransform(cells) ==
  LET f(cs) == [i \in DOMAIN cs |->
                  IF IsNA(cs[i]) THEN NA
                  ELSE Num(ISqrt((cs[i].v + SqrtShift(cs)) * SCALE))]
  IN Numeric("sqrt", cells, f)

RECURSIVE Pow(_, _)
\* fixed-point x ** d as a cell (d >= 1); symbolic once out of range
Pow(x, d) ==
  IF d = 1 THEN Num(x)
  ELSE LET p == Pow(x, d - 1)
       IN IF p.t = "num" THEN Num(Div(x * p.v, SCALE))
          ELSE Sym("pow" \o Digit(d), IF d % 2 = 0 THEN Abs(x) ELSE x)

\* the int64 2^e (0 <= e <= 62), kept as its exponent
Pow2(e) == Sym("2^", e)

\* an int64 column holding such a value beside small whole numbers
IsWideColumn(cells) ==
  /\ \E i \in DOMAIN cells : cells[i].t = "2^"
  /\ \A i \in DOMAIN cells : cells[i].t \in {"2^", "num"}

\* (2^e) ** d on int64: numpy multiplies modulo 2^64 and reports nothing, so
\* 2^63 comes out as -2^63 and every higher power of two as 0
Pow2Int64(e, d) ==
  IF e * d < 63 THEN Pow2(e * d)
  ELSE IF e * d = 63 THEN Sym("-2^", 63)
  ELSE Num(0)

Power(cells, d) ==
  LET f(cs) == [i \in DOMAIN cs |-> IF IsNA(cs[i]) THEN NA ELSE Pow(cs[i].v, d)]
  IN IF IsWideColumn(cells)
     THEN [i \in DOMAIN cells |->
             IF cells[i].t = "2^" THEN Pow2Int64(cells[i].v, d)
             ELSE Pow(cells[i].v, d)]
     ELSE Numeric("pow", cells, f)

(* --------------------------- string conversion ------------------------- *)
RECURSIVE NatChars(_)
NatChars(n) ==
  IF n < 10 THEN <<Digit(n)>> ELSE Append(NatChars(n \div 10), Digit(n % 10))

\* str() of an int
IntChars(n) == IF n < 0 THEN <<"-">> \o NatChars(-n) ELSE NatChars(n)

\* str() of a float held in fixed point: "1.0", "1.5", "-0.25"
FloatChars(v) ==
  LET a    == Abs(v)
      fr   == ((a % SCALE) * 100) \div SCALE
      frac == IF fr % 10 = 0 THEN <<Digit(fr \div 10)>>
              ELSE <<Digit(fr \div 10), Digit(fr % 10)>>
  IN (IF v < 0 THEN <<"-">> ELSE <<>>) \o NatChars(a \div SCALE) \o <<".">> \o frac

RECURSIVE Join(_)
\* the string made of a sequence of characters
Join(chars) == IF chars = <<>> THEN "" ELSE Head(chars) \o Join(Tail(chars))

\* str(cell) for a cell of a column of the given dtype (astype(str), and the
\* level text get_dummies puts into a column name)
CellChars(c, dtype) ==
  CASE c.t = "na"  -> <<"n", "a", "n">>
    [] c.t = "str" -> c.s
    [] c.t = "num" -> IF dtype = "i" THEN IntChars(c.v \div SCALE)
                      ELSE IF dtype = "b"
                           THEN (IF c.v = 0 THEN <<"F", "a", "l", "s", "e">>
                                 ELSE <<"T", "r", "u", "e">>)
                      ELSE FloatChars(c.v)
    [] OTHER       -> <<c.t, "#">> \o IntChars(c.v)

\* code point of the characters the model's strings are made of
CharCode(ch) ==
  CASE ch = " " -> 32 [] ch = "#" -> 35 [] ch = "-" -> 45 [] ch = "." -> 46
    [] ch = "0" -> 48 [] ch = "1" -> 49 [] ch = "2" -> 50 [] ch = "3" -> 51
    [] ch = "4" -> 52 [] ch = "5" -> 53 [] ch = "6" -> 54 [] ch = "7" -> 55
    [] ch = "8" -> 56 [] ch = "9" -> 57 [] ch = "?" -> 63 [] ch = "F" -> 70
    [] ch = "T" -> 84 [] ch = "U" -> 85
    [] ch = "a" -> 97 [] ch = "b" -> 98 [] ch = "c" -> 99 [] ch = "e" -> 101
    [] ch = "k" -> 107 [] ch = "l" -> 108 [] ch = "n" -> 110 [] ch = "o" -> 111
    [] ch = "r" -> 114 [] ch = "s" -> 115 [] ch = "u" -> 117 [] ch = "w" -> 119
    [] OTHER -> 200

RECURSIVE LexLess(_, _)
\* a < b for strings (character sequences), by code point
LexLess(a, b) ==
  IF b = <<>> THEN FALSE
  ELSE IF a = <<>> THEN TRUE
  ELSE IF CharCode(Head(a)) # CharCode(Head(b))
       THEN CharCode(Head(a)) < CharCode(Head(b))
  ELSE LexLess(Tail(a), Tail(b))

\* the order sorted() / np.unique puts two distinct non-missing cells of one
\* column in: numbers by value, strings by code point
CellLess(a, b) ==
  IF a.t = "str" /\ b.t = "str" THEN LexLess(a.s, b.s)
  ELSE IF a.t = "str" \/ b.t = "str" THEN b.t = "str"
  ELSE IF a.t = "num" /\ b.t = "num" THEN a.v < b.v
  ELSE IF a.t = "num" \/ b.t = "num" THEN a.t = "num"
  ELSE a.v < b.v

RECURSIVE SortCells(_)
\* the cells of the finite set S in ascending order
SortCells(S) ==
  IF S = {} THEN <<>>
  ELSE LET m == CHOOSE x \in S : \A y \in S \ {x} : ~CellLess(y, x)
       IN <<m>> \o SortCells(S \ {m})

RECURSIVE SortStrings(_)
\* the strings of the finite set S in ascending order
SortStrings(S) ==
  IF S = {} THEN <<>>
  ELSE LET m == CHOOSE x \in S : \A y \in S \ {x} : ~LexLess(y, x)
       IN <<m>> \o SortStrings(S \ {m})

\* position of x in the sequence s (x occurs in s)
IndexOf(s, x) == CHOOSE i \in DOMAIN s : s[i] = x

(* --------------------------- derived columns --------------------------- *)
RECURSIVE Dedup(_)
\* a sequence without its repeated elements (first occurrences kept)
Dedup(s) ==
  IF s = <<>> THEN <<>>
  ELSE LET f == Dedup(Front(s))
       IN IF Last(s) \in Range(f) THEN f ELSE Append(f, Last(s))

\* pd.qcut(series, n, duplicates='drop', labels=False): the quantile edges
\* at 0, 1/n, ..., 1 without repeated edges
QcutEdges(vals, n) ==
  LET edges == [k \in 1..(n + 1) |-> QuantileFrac(vals, k - 1, n)]
  IN IF n + 1 # 2 THEN Dedup(edges) ELSE edges

\* the bucket of x: searchsorted(edges, x, side='left') with the lowest edge
\* included, minus 1; NaN when x falls in no bucket
QcutBucket(edges, x) ==
  LET ids == IF x = edges[1] THEN 1
             ELSE Cardinality({k \in DOMAIN edges : edges[k] < x})
  IN IF ids = 0 \/ ids = Len(edges) THEN NA ELSE Num((ids - 1) * SCALE)

Qcut(cells, n) ==
  LET f(cs) == [i \in DOMAIN cs |->
                  IF IsNA(cs[i]) THEN NA
                  ELSE QcutBucket(QcutEdges(Values(cs), n), cs[i].v)]
  IN Numeric("bin", cells, f)

\* dtype of a numeric result: int64 unless a NaN forces float64
IntOrFloat(cells) == IF \E i \in DOMAIN cells : ~IsNum(cells[i]) THEN "f" ELSE "i"

\* pd.get_dummies(series, prefix=column): one bool column per distinct
\* non-missing value, levels sorted, named <column>_<level>
GetDummies(col) ==
  LET levels == SortCells({c \in Range(col.cells) : ~IsNA(c)})
  IN [k \in DOMAIN levels |->
        Col(col.name \o "_" \o Join(CellChars(levels[k], col.dtype)), "b",
            [i \in DOMAIN col.cells |->
               IF col.cells[i] = levels[k] THEN Num(SCALE) ELSE Num(0)])]

\* codes as pd.factorize gives them: a missing cell gets -1 and the other
\* values their position among the sorted distinct strings
LabelEncode_missing_as_minus_one(col) ==
  LET strs    == [i \in DOMAIN col.cells |-> CellChars(col.cells[i], col.dtype)]
      present == {strs[i] : i \in {j \in DOMAIN strs : ~IsNA(col.cells[j])}}
      classes == SortStrings(present)
  IN [i \in DOMAIN strs |->
        IF IsNA(col.cells[i]) THEN Num(-SCALE)
        ELSE Num((IndexOf(classes, strs[i]) - 1) * SCALE)]

\* LabelEncoder().fit_transform(series.astype(str)): classes_ are the sorted
\* distinct strings, the code of a cell is the position of its string
LabelEncode(col) ==
  LET strs    == [i \in DOMAIN col.cells |-> CellChars(col.cells[i], col.dtype)]
      classes == SortStrings(Range(strs))
  IN [i \in DOMAIN strs |-> Num((IndexOf(classes, strs[i]) - 1) * SCALE)]

\* select_dtypes(include=[np.number]): int and float columns, not bool
NumericCols(df) ==
  LET keep == [i \in DOMAIN df.cols |-> df.cols[i].dtype \in {"i", "f"}]
  IN SelectIdx(keep, Len(df.cols), 1)

\* the numeric part of row r, the input of the projection
NumericRow(df, r) ==
  LET nc == NumericCols(df) IN [k \in DOMAIN nc |-> df.cols[nc[k]].cells[r]]

\* PCA.fit_transform raises on NaN input and when n_components is outside
\* [0, min(n_samples, n_features)]
PCARaises(df, n) ==
  \/ \E r \in 1..df.n : \E k \in DOMAIN NumericRow(df, r) : IsNA(NumericRow(df, r)[k])
  \/ n > df.n
  \/ n < 0

\* component i of the projection of the numeric columns: symbolic, named
\* after the component and the number of features projected, equal for rows
\* with equal input
PCAColumn(df, i) ==
  [r \in 1..df.n |->
     Sym("pc" \o Digit(i) \o "of" \o Digit(Len(NumericCols(df))),
         CHOOSE q \in 1..df.n :
           /\ NumericRow(df, q) = NumericRow(df, r)
           /\ \A p \in 1..(q - 1) : NumericRow(df, p) # NumericRow(df, r))]

(* --------------------------- cleaning primitives ----------------------- *)
\* missing_indicators of auto_clean
MissingIndicators ==
  { <<"?">>, <<"?", "?">>, <<"?", "?", "?">>, <<"n", "a">>, <<"N", "a", "N">>,
    <<"N", "U", "L", "L">>, <<"n", "u", "l", "l">>, <<"-", "-">>, <<>>, <<" ">>,
    <<"n", "o", "n", "e">>, <<"N", "o", "n", "e">> }

MapCells(df, f(_)) ==
  DF([i \in DOMAIN df.cols |->
        Col(df.cols[i].name, df.cols[i].dtype,
            [r \in DOMAIN df.cols[i].cells |-> f(df.cols[i].cells[r])])], df.n)

\* a replacement that also takes the spellings "NA" and "nan"
ReplaceIndicators_more_spellings(df) ==
  LET f(c) == IF c.t = "str"
                 /\ c.s \in MissingIndicators \cup {<<"N", "A">>, <<"n", "a", "n">>}
              THEN NA ELSE c
  IN MapCells(df, f)

\* df.replace(missing_indicators, np.nan)
ReplaceIndicators(df) ==
  LET f(c) == IF c.t = "str" /\ c.s \in MissingIndicators THEN NA ELSE c
  IN MapCells(df, f)

\* the columns of df for which keep holds, in order
KeepCols(df, keep(_)) ==
  LET flags == [i \in DOMAIN df.cols |-> keep(df.cols[i])]
      idx   == SelectIdx(flags, Len(df.cols), 1)
  IN DF([k \in DOMAIN idx |-> df.cols[idx[k]]], df.n)

\* df.dropna(axis=1, how="all")
DropAllMissing(df) ==
  LET keep(col) == ~AllNA(col.cells) IN KeepCols(df, keep)

\* threshold = 0.8 * len(df); df.dropna(axis=1, thresh=threshold) keeps the
\* columns with at least threshold non-missing cells
DropBelowThreshold(df) ==
  LET keep(col) == 10 * (df.n - CountNA(col.cells)) >= 8 * df.n
  IN KeepCols(df, keep)

Fillna(cells, value) ==
  [i \in DOMAIN cells |-> IF IsNA(cells[i]) THEN value ELSE cells[i]]

Count(cells, c) == Cardinality({i \in DOMAIN cells : cells[i] = c})

\* Series.mode(): the most frequent non-missing values, sorted
Modes(cells) ==
  LET vals == {c \in Range(cells) : ~IsNA(c)}
  IN SortCells({c \in vals : \A d \in vals : Count(cells, d) <= Count(cells, c)})

\* a mean that divides by the number of cells, missing ones included
MeanCell_counting_missing(cells) ==
  IF HasOpaque(cells) THEN Sym("mean", 0)
  ELSE IF Values(cells) = <<>> THEN NA
  ELSE Num(Div(SumSeq(Values(cells)), Len(cells)))

\* Series.mean() as a cell: NaN for a column without values
MeanCell(cells) ==
  IF HasOpaque(cells) THEN Sym("mean", 0)
  ELSE IF Values(cells) = <<>> THEN NA
  ELSE Num(Mean(Values(cells)))

\* step 4 filling the missing numbers with 0 whatever the column holds
FillColumn_with_zero(col) ==
  IF ~\E i \in DOMAIN col.cells : IsNA(col.cells[i]) THEN col
  ELSE IF IsNumericKind(col)
       THEN Col(col.name, col.dtype, Fillna(col.cells, Num(0)))
  ELSE IF Modes(col.cells) # <<>>
       THEN Col(col.name, col.dtype, Fillna(col.cells, Modes(col.cells)[1]))
  ELSE Col(col.name, col.dtype,
           Fillna(col.cells, Str(<<"U", "n", "k", "n", "o", "w", "n">>)))

\* step 4 of auto_clean for one column
FillColumn(col) ==
  IF ~\E i \in DOMAIN col.cells : IsNA(col.cells[i]) THEN col
  ELSE IF IsNumericKind(col)
       THEN IF ~AllNA(col.cells)
            THEN Col(col.name, col.dtype, Fillna(col.cells, MeanCell(col.cells)))
            ELSE Col(col.name, col.dtype, Fillna(col.cells, Num(0)))
  ELSE IF Modes(col.cells) # <<>>
       THEN Col(col.name, col.dtype, Fillna(col.cells, Modes(col.cells)[1]))
  ELSE Col(col.name, col.dtype,
           Fillna(col.cells, Str(<<"U", "n", "k", "n", "o", "w", "n">>)))

FillAll(df) == DF([i \in DOMAIN df.cols |-> FillColumn(df.cols[i])], df.n)

\* df.duplicated(): row r equals an earlier row (a frame without columns has
\* no duplicates)
Duplicated(df) ==
  [r \in 1..df.n |->
     Len(df.cols) > 0 /\ \E p \in 1..(r - 1) : Row(df, p) = Row(df, r)]

DuplicatedSum(df) == Cardinality({r \in 1..df.n : Duplicated(df)[r]})

\* drop_duplicates keeping the last occurrence of each row
DropDuplicates_keep_last(df) ==
  LET keep == [r \in 1..df.n |->
                 Len(df.cols) = 0
                 \/ ~\E p \in (r + 1)..df.n : Row(df, p) = Row(df, r)]
      idx  == SelectIdx(keep, df.n, 1)
  IN DF([i \in DOMAIN df.cols |->
           Col(df.cols[i].name, df.cols[i].dtype,
               [k \in DOMAIN idx |-> df.cols[i].cells[idx[k]]])], Len(idx))

\* df.drop_duplicates(): first occurrences, in order
DropDuplicates(df) ==
  LET keep == [r \in 1..df.n |-> ~Duplicated(df)[r]]
      idx  == SelectIdx(keep, df.n, 1)
  IN DF([i \in DOMAIN df.cols |->
           Col(df.cols[i].name, df.cols[i].dtype,
               [k \in DOMAIN idx |-> df.cols[i].cells[idx[k]]])], Len(idx))

\* steps 1-3 of auto_clean
AutoCleanDrop(df) == DropBelowThreshold(DropAllMissing(ReplaceIndicators(df)))

\* step 4 evaluates the truth value of df_cleaned[col].isnull().any(), which
\* raises when col names more than one column
AutoCleanRaises(df) == ~NoDuplicateNames(AutoCleanDrop(df))

\* auto_clean removing duplicate rows before it fills the missing values
AutoCleanTable_dedup_first(df) == FillAll(DropDuplicates(AutoCleanDrop(df)))

\* the table auto_clean stores (steps 1-5)
AutoCleanTable(df) == DropDuplicates(FillAll(AutoCleanDrop(df)))

\* df.drop(columns=[column]): every column of that name goes
DropColumn(df, name) ==
  LET keep(col) == col.name # name IN KeepCols(df, keep)

(* --------------------------- parsing a custom value -------------------- *)
IsDigit(ch) == ch \in {"0", "1", "2", "3", "4", "5", "6", "7", "8", "9"}

DigitVal(ch) == CHOOSE d \in 0..9 : Digit(d) = ch

RECURSIVE DigitsVal(_)
DigitsVal(chars) ==
  IF chars = <<>> THEN 0 ELSE 10 * DigitsVal(Front(chars)) + DigitVal(Last(chars))

AllDigits(chars) == \A i \in DOMAIN chars : IsDigit(chars[i])

Unsigned(chars) ==
  IF chars # <<>> /\ Head(chars) \in {"-", "+"} THEN Tail(chars) ELSE chars

Sign(chars) == IF chars # <<>> /\ Head(chars) = "-" THEN -1 ELSE 1

\* int(value) succeeds: an optional sign and at least one digit
IntParses(chars) == Unsigned(chars) # <<>> /\ AllDigits(Unsigned(chars))

IntValue(chars) == Sign(chars) * DigitsVal(Unsigned(chars)) * SCALE

DotAt(chars) == {i \in DOMAIN chars : chars[i] = "."}

\* float(value) for a value containing '.': digits on at least one side of
\* exactly one separator
FloatParses(chars) ==
  LET u == Unsigned(chars)
  IN /\ Cardinality(DotAt(u)) = 1
     /\ Len(u) > 1
     /\ \A i \in DOMAIN u : u[i] = "." \/ IsDigit(u[i])

RECURSIVE Pow10(_)
Pow10(k) == IF k = 0 THEN 1 ELSE 10 * Pow10(k - 1)

FloatValue(chars) ==
  LET u    == Unsigned(chars)
      d    == CHOOSE i \in DotAt(u) : TRUE
      ip   == SubSeq(u, 1, d - 1)
      fp   == SubSeq(u, d + 1, Len(u))
  IN Sign(chars) * (DigitsVal(ip) * SCALE + (DigitsVal(fp) * SCALE) \div Pow10(Len(fp)))

\* the value always parsed with int(value)
CustomParses_int_only(chars) == IntParses(chars)

\* float(value) if '.' in str(value) else int(value)
CustomParses(chars) ==
  IF DotAt(chars) # {} THEN FloatParses(chars) ELSE IntParses(chars)

CustomValue(chars) ==
  IF DotAt(chars) # {} THEN FloatValue(chars) ELSE IntValue(chars)

(* --------------------------- the Table Store --------------------------- *)
\* current_dataset when no Dataset is set (None); dataset_id None
NoDataset == 0

\* the engine's state while a handler runs: the heap of DataFrame objects,
\* the reference held by current_dataset.data, the two stacks of references
\* and the audit log
Machine ==
  [heap |-> heap, cur |-> current_dataset, undo |-> undo_stack,
   redo |-> redo_stack, logs |-> local_logs]

\* the DataFrame get_dataframe() returns: the live object, or a new empty
\* frame when no dataset is set
get_dataframe(m) == IF m.cur # NoDataset THEN m.heap[m.cur] ELSE EmptyDF

NewId(m) == CHOOSE i \in 1..(Cardinality(DOMAIN m.heap) + 1) :
              /\ i \notin DOMAIN m.heap
              /\ \A j \in 1..(i - 1) : j \in DOMAIN m.heap

\* a new DataFrame object holding df
Alloc(m, df) == [m EXCEPT !.heap = m.heap @@ (NewId(m) :> df)]

\* update_dataframe(dataframe): current_dataset.data = dataframe, refused
\* when no dataset is set
update_dataframe(m, ref) ==
  IF m.cur # NoDataset THEN [m EXCEPT !.cur = ref] ELSE m

\* update_dataframe(new frame): the operation built a new DataFrame object
StoreNew(m, df) == update_dataframe(Alloc(m, df), NewId(m))

\* df[...] = ... on the object get_dataframe() returned, then
\* update_dataframe(df) with that same object
StoreInPlace(m, df) ==
  update_dataframe([m EXCEPT !.heap = [m.heap EXCEPT ![m.cur] = df]], m.cur)

\* log_operation losing the event instead of appending it
log_operation_lost(m, did, type, df) == m

\* LoggingService.log_operation: always appends one entry to local_logs;
\* written records whether the store already held the operation's table
log_operation(m, did, type, df) ==
  [m EXCEPT !.logs = Append(m.logs,
      [dataset_id |-> did, operation_type |-> type,
       written |-> (get_dataframe(m) = df)])]

\* "if dataset_id: self.logging_service.log_operation(...)"
LogIfId(m, did, type, df) ==
  IF did # NoDataset THEN log_operation(m, did, type, df) ELSE m

(* --------------------------- undo / redo stacks ------------------------ *)
\* _save_undo_state pushing the live DataFrame itself, without copy(deep=True)
save_undo_state_shared(m) ==
  IF ~IsEmpty(get_dataframe(m))
  THEN [m EXCEPT !.undo = Append(m.undo, m.cur), !.redo = <<>>]
  ELSE m

\* _save_undo_state: push a deep copy of the live frame, clear redo_stack
save_undo_state(m) ==
  IF ~IsEmpty(get_dataframe(m))
  THEN [Alloc(m, get_dataframe(m)) EXCEPT
          !.undo = Append(m.undo, NewId(m)), !.redo = <<>>]
  ELSE m

\* undo() not keeping the live frame for redo()
undo_keep_lost(m) == m

\* the first half of undo(): keep a deep copy of a non-empty live frame on
\* redo_stack
undo_keep(m) ==
  IF ~IsEmpty(get_dataframe(m))
  THEN [Alloc(m, get_dataframe(m)) EXCEPT !.redo = Append(m.redo, NewId(m))]
  ELSE m

\* redo() not keeping the live frame for undo()
redo_keep_lost(m) == m

\* the first half of redo(): keep a deep copy of a non-empty live frame on
\* undo_stack
redo_keep(m) ==
  IF ~IsEmpty(get_dataframe(m))
  THEN [Alloc(m, get_dataframe(m)) EXCEPT !.undo = Append(m.undo, NewId(m))]
  ELSE m

(* --------------------------- results ----------------------------------- *)
\* what a handler returned: status "ok" (success: True), "fail" (success:
\* False) or "raise" (an exception left the handler)
ResP(op, status, msg, payload) ==
  [op |-> op, status |-> status, msg |-> msg, payload |-> payload]

Res(op, status, msg) == ResP(op, status, msg, <<>>)

\* no handler has returned since the user interface last showed a result
NoResult == Res("", "", "")

FeatureOps ==
  {"standardize_column", "minmax_scale_column", "robust_scale_column",
   "log_transform_column", "sqrt_transform_column", "bin_column",
   "create_polynomial_features", "one_hot_encode_column",
   "label_encode_column", "apply_pca", "create_custom_feature"}

CleaningOps ==
  {"auto_clean", "fill_missing_with_mean", "fill_missing_with_mode",
   "fill_missing_with_custom", "drop_column", "remove_duplicates"}

\* the live table of a machine state
Live(m) == get_dataframe(m)

Tables(m, refs) == [i \in DOMAIN refs |-> m.heap[refs[i]]]

(* --------------------------- history variables ------------------------- *)
\* c1 follows the pattern "successful forward operation, undo, redo":
\* phase 1 after the operation (T the table before it, T2 the table after),
\* 2 after an undo that directly follows, 3 after a redo directly after that.
\* With a successful cleaning operation in between: 4 after a cleaning
\* operation in phase 1 and 5 after the undo that follows it, 6 after a
\* cleaning operation in phase 2 and 7 after the redo that follows it.
\* With an upload in between: 8 after an upload in phase 1 and 9 after the
\* undo that follows it
C1Off == [phase |-> 0, T |-> EmptyDF, T2 |-> EmptyDF]

NextC1(res, pre, post) ==
  IF res.op \in FeatureOps /\ res.status = "ok"
  THEN [phase |-> 1, T |-> pre, T2 |-> post]
  ELSE IF res.op = "undo" /\ c1.phase = 1 THEN [c1 EXCEPT !.phase = 2]
  ELSE IF res.op = "redo" /\ c1.phase = 2 THEN [c1 EXCEPT !.phase = 3]
  ELSE IF res.op \in CleaningOps /\ res.status = "ok" /\ c1.phase \in {1, 2}
  THEN [c1 EXCEPT !.phase = c1.phase * 2 + 2]
  ELSE IF res.op = "undo" /\ c1.phase = 4 THEN [c1 EXCEPT !.phase = 5]
  ELSE IF res.op = "redo" /\ c1.phase = 6 THEN [c1 EXCEPT !.phase = 7]
  ELSE IF res.op = "upload_dataset" /\ c1.phase = 1 THEN [c1 EXCEPT !.phase = 8]
  ELSE IF res.op = "undo" /\ c1.phase = 8 THEN [c1 EXCEPT !.phase = 9]
  ELSE C1Off

\* run follows the pattern "from empty stacks and live table T0: n successful
\* forward operations, then consecutive undo calls, then consecutive redo
\* calls": ts = <<T0, .., Tn>>, k the undo calls that had something to undo
\* by the count (at most n), over whether one more undo call was made, j the
\* redo calls (at most k)
RunOff == [phase |-> "off", ts |-> <<>>, k |-> 0, over |-> FALSE, j |-> 0]

NextRun(res, nm) ==
  IF run.phase = "fwd" /\ res.op \in FeatureOps /\ res.status = "ok"
  THEN [run EXCEPT !.ts = Append(run.ts, Live(nm))]
  ELSE IF run.phase \in {"fwd", "undo"} /\ res.op = "undo" /\ ~run.over
          /\ Len(run.ts) > 1
  THEN IF run.k < Len(run.ts) - 1
       THEN [run EXCEPT !.phase = "undo", !.k = run.k + 1]
       ELSE [run EXCEPT !.phase = "undo", !.over = TRUE]
  ELSE IF run.phase \in {"undo", "redo"} /\ res.op = "redo" /\ run.j < run.k
  THEN [run EXCEPT !.phase = "redo", !.j = run.j + 1]
  ELSE IF nm.undo = <<>> /\ nm.redo = <<>> /\ res.op \notin {"undo", "redo"}
  THEN [phase |-> "fwd", ts |-> <<Live(nm)>>, k |-> 0, over |-> FALSE, j |-> 0]
  ELSE RunOff

\* cleaned counts the successful auto_clean calls made in a row, up to two
NextCleaned(res) ==
  IF res.op = "auto_clean" /\ res.status = "ok"
  THEN IF cleaned < 2 THEN cleaned + 1 ELSE cleaned
  ELSE 0

\* deduped counts the successful remove_duplicates calls made in a row, up
\* to two
NextDeduped(res) ==
  IF res.op = "remove_duplicates" /\ res.status = "ok"
  THEN IF deduped < 2 THEN deduped + 1 ELSE deduped
  ELSE 0

(* --------------------------- leaving a handler ------------------------- *)
\* object references are renamed to 1, 2, ... in the order live, undo_stack,
\* redo_stack (aliases keep one name) and unreferenced objects are dropped
Normalize(m) ==
  LET refs == (IF m.cur # NoDataset THEN <<m.cur>> ELSE <<>>) \o m.undo \o m.redo
      uniq == Dedup(refs)
  IN [heap |-> [k \in 1..Len(uniq) |-> m.heap[uniq[k]]],
      cur  |-> IF m.cur = NoDataset THEN NoDataset ELSE IndexOf(uniq, m.cur),
      undo |-> [i \in DOMAIN m.undo |-> IndexOf(uniq, m.undo[i])],
      redo |-> [i \in DOMAIN m.redo |-> IndexOf(uniq, m.redo[i])],
      logs |-> m.logs]

\* the part of the state space that is explored
Bounded(m) ==
  /\ Len(m.undo) + Len(m.redo) <= MaxDepth
  /\ Len(m.logs) <= MaxLogs
  /\ Len(Live(m).cols) <= MaxCols

\* a call of upload_dataset or of a forward / cleaning operation
IsCall(res) == res.op \in FeatureOps \cup CleaningOps \cup {"upload_dataset"}

\* the handler leaves the engine in m and returns res
Return(m, res) ==
  \E nm \in {Normalize(m)} :
     /\ pc = "idle"
     /\ Bounded(nm)
     /\ pc' = "returned"
     /\ heap' = nm.heap
     /\ current_dataset' = nm.cur
     /\ undo_stack' = nm.undo
     /\ redo_stack' = nm.redo
     /\ local_logs' = nm.logs
     /\ result' = res
     /\ c1' = NextC1(res, Live(Machine), Live(nm))
     /\ run' = NextRun(res, nm)
     /\ cleaned' = NextCleaned(res)
     /\ deduped' = NextDeduped(res)
     /\ calls' = IF IsCall(res) THEN calls + 1 ELSE calls

\* the column test without the test for an empty frame
ColumnCheck_without_empty_test(df, column) ==
  IF ~HasCol(df, column) THEN "Column not found" ELSE ""

(* --------------------------- FeatureEngine ----------------------------- *)
\* the checks every column operation starts with; "" when they pass
ColumnCheck(df, column) ==
  IF IsEmpty(df) THEN "No dataset loaded"
  ELSE IF ~HasCol(df, column) THEN "Column not found"
  ELSE ""

\* the try block of a forward operation that assigns to the live frame in
\* place: snapshot, compute (raising leaves the handler through except),
\* write back, log
TryInPlace(op, raises, df2) ==
  LET m1 == save_undo_state(Machine)
  IN IF raises THEN Return(m1, Res(op, "fail", "failed"))
     ELSE Return(LogIfId(StoreInPlace(m1, df2), dataset_id, "feature_engineering", df2),
                 Res(op, "ok", ""))

\* a numeric-only operation taking its snapshot before it tests the dtype
NumericOp_snapshot_before_dtype_test(op, column, target, raises, dtype, cells) ==
  LET df == get_dataframe(Machine)
  IN IF ColumnCheck(df, column) # ""
     THEN Return(Machine, Res(op, "fail", ColumnCheck(df, column)))
     ELSE IF ~IsSeries(df, column)
     THEN Return(Machine, Res(op, "raise", "AttributeError"))
     ELSE IF ~IsNumericKind(ColAt(df, column))
     THEN Return(save_undo_state(Machine), Res(op, "fail", "must be numeric"))
     ELSE TryInPlace(op, raises, SetCol(df, target, dtype, cells))

\* a numeric-only operation that replaces or adds one column
NumericOp(op, column, target, raises, dtype, cells) ==
  LET df == get_dataframe(Machine)
  IN IF ColumnCheck(df, column) # ""
     THEN Return(Machine, Res(op, "fail", ColumnCheck(df, column)))
     ELSE IF ~IsSeries(df, column)
     THEN \* df[column] is a DataFrame: .dtype raises outside the try block
          Return(Machine, Res(op, "raise", "AttributeError"))
     ELSE IF ~IsNumericKind(ColAt(df, column))
     THEN Return(Machine, Res(op, "fail", "must be numeric"))
     ELSE TryInPlace(op, raises, SetCol(df, target, dtype, cells))

ColCells(column) ==
  LET df == get_dataframe(Machine)
  IN IF IsSeries(df, column) THEN ColAt(df, column).cells ELSE <<>>

standardize_column(column) ==
  NumericOp("standardize_column", column, column, FALSE, "f",
            StandardScale(ColCells(column)))

minmax_scale_column(column) ==
  NumericOp("minmax_scale_column", column, column \o "_minmax", FALSE, "f",
            MinMaxScale(ColCells(column)))

robust_scale_column(column) ==
  NumericOp("robust_scale_column", column, column \o "_robust", FALSE, "f",
            RobustScale(ColCells(column)))

log_transform_column(column) ==
  NumericOp("log_transform_column", column, column \o "_log", FALSE, "f",
            LogTransform(ColCells(column)))

sqrt_transform_column(column) ==
  NumericOp("sqrt_transform_column", column, column \o "_sqrt", FALSE, "f",
            SqrtTransform(ColCells(column)))

\* np.linspace(0, 1, n_bins + 1) inside pd.qcut raises for a negative number
\* of samples
QcutRaises(n_bins) == n_bins + 1 < 0

bin_column(column, n_bins) ==
  NumericOp("bin_column", column, column \o "_binned", QcutRaises(n_bins),
            IF QcutRaises(n_bins) THEN "f"
            ELSE IntOrFloat(Qcut(ColCells(column), n_bins)),
            IF QcutRaises(n_bins) THEN <<>> ELSE Qcut(ColCells(column), n_bins))

RECURSIVE PolyFrame(_, _, _, _)
\* for d in range(from, degree + 1): df[f"{column}_poly{d}"] = df[column] ** d
PolyFrame(df, column, from, degree) ==
  IF from > degree THEN df
  ELSE PolyFrame(SetCol(df, column \o "_poly" \o Join(IntChars(from)),
                        IF ColAt(df, column).dtype = "f" THEN "f" ELSE "i",
                        Power(ColAt(df, column).cells, from)),
                 column, from + 1, degree)

create_polynomial_features(column, degree) ==
  LET op == "create_polynomial_features"
      df == get_dataframe(Machine)
  IN IF ColumnCheck(df, column) # ""
     THEN Return(Machine, Res(op, "fail", ColumnCheck(df, column)))
     ELSE IF ~IsSeries(df, column)
     THEN Return(Machine, Res(op, "raise", "AttributeError"))
     ELSE IF ~IsNumericKind(ColAt(df, column))
     THEN Return(Machine, Res(op, "fail", "must be numeric"))
     ELSE TryInPlace(op, FALSE, PolyFrame(df, column, 2, degree))

\* pd.get_dummies(df[column], prefix=column): the indicator columns of a
\* Series; a DataFrame of bool columns (a duplicated name) comes back as is
Dummies(df, column) ==
  IF IsSeries(df, column) THEN GetDummies(ColAt(df, column))
  ELSE LET keep(col) == col.name = column IN KeepCols(df, keep).cols

\* df = pd.concat([df, dummies], axis=1): a new frame, names not checked
one_hot_encode_column(column) ==
  LET op == "one_hot_encode_column"
      df == get_dataframe(Machine)
      df2 == DF(df.cols \o Dummies(df, column), df.n)
  IN IF ColumnCheck(df, column) # ""
     THEN Return(Machine, Res(op, "fail", ColumnCheck(df, column)))
     ELSE Return(LogIfId(StoreNew(save_undo_state(Machine), df2), dataset_id,
                         "feature_engineering", df2),
                 Res(op, "ok", ""))

\* LabelEncoder rejects the two-dimensional input a duplicated name gives
label_encode_column(column) ==
  LET op == "label_encode_column"
      df == get_dataframe(Machine)
  IN IF ColumnCheck(df, column) # ""
     THEN Return(Machine, Res(op, "fail", ColumnCheck(df, column)))
     ELSE IF ~IsSeries(df, column) THEN TryInPlace(op, TRUE, df)
     ELSE TryInPlace(op, FALSE,
                     SetCol(df, column \o "_label", "i",
                            LabelEncode(ColAt(df, column))))

RECURSIVE PCAFrame(_, _, _, _)
\* for i in range(n_components): df[f"PC_{i+1}"] = pca_result[:, i], the
\* projection being computed from src before the loop
PCAFrame(df, src, from, n) ==
  IF from > n THEN df
  ELSE PCAFrame(SetCol(df, "PC_" \o Join(IntChars(from)), "f", PCAColumn(src, from)),
                src, from + 1, n)

\* apply_pca taking its snapshot before it compares n_components with the
\* number of numeric columns
apply_pca_snapshot_before_count_test(n_components) ==
  LET op == "apply_pca"
      df == get_dataframe(Machine)
  IN IF IsEmpty(df) THEN Return(Machine, Res(op, "fail", "No dataset loaded"))
     ELSE IF Len(NumericCols(df)) < 2
     THEN Return(Machine, Res(op, "fail", "Need at least 2 numeric columns for PCA"))
     ELSE IF n_components > Len(NumericCols(df))
     THEN Return(save_undo_state(Machine),
                 Res(op, "fail", "n_components must be <= numeric columns"))
     ELSE TryInPlace(op, PCARaises(df, n_components),
                     IF PCARaises(df, n_components) THEN df
                     ELSE PCAFrame(df, df, 1, n_components))

apply_pca(n_components) ==
  LET op == "apply_pca"
      df == get_dataframe(Machine)
  IN IF IsEmpty(df) THEN Return(Machine, Res(op, "fail", "No dataset loaded"))
     ELSE IF Len(NumericCols(df)) < 2
     THEN Return(Machine, Res(op, "fail", "Need at least 2 numeric columns for PCA"))
     ELSE IF n_components > Len(NumericCols(df))
     THEN Return(Machine, Res(op, "fail", "n_components must be <= numeric columns"))
     ELSE TryInPlace(op, PCARaises(df, n_components),
                     IF PCARaises(df, n_components) THEN df
                     ELSE PCAFrame(df, df, 1, n_components))

\* eval(expression, {"__builtins__": {}}, {'df': df, 'np': np, 'pd': pd}) for
\* the expressions explored: twice a column, a missing column
CustomRaises(df, expression) ==
  IF expression = "df['x'] * 2" THEN ~IsSeries(df, "x") ELSE TRUE

Twice(col) ==
  [i \in DOMAIN col.cells |->
     LET c == col.cells[i]
     IN CASE c.t = "na"  -> NA
          [] c.t = "str" -> Str(c.s \o c.s)
          [] c.t = "num" -> Num(2 * c.v)
          [] OTHER       -> Opaque("twice", c)]

CustomColumn(df, name, expression) ==
  Col(name,
      IF ColAt(df, "x").dtype = "b" THEN "i" ELSE ColAt(df, "x").dtype,
      Twice(ColAt(df, "x")))

create_custom_feature(feature_name, expression) ==
  LET op == "create_custom_feature"
      df == get_dataframe(Machine)
  IN IF IsEmpty(df) THEN Return(Machine, Res(op, "fail", "No dataset loaded"))
     ELSE IF feature_name = "" \/ expression = ""
     THEN Return(Machine, Res(op, "fail", "Feature name and expression required"))
     ELSE TryInPlace(op, CustomRaises(df, expression),
                     IF CustomRaises(df, expression) THEN df
                     ELSE LET col == CustomColumn(df, feature_name, expression)
                          IN SetCol(df, feature_name, col.dtype, col.cells))

\* undo() testing redo_stack where it should test undo_stack
undo_tests_redo ==
  IF redo_stack = <<>> THEN Return(Machine, Res("undo", "fail", "Nothing to undo"))
  ELSE LET m1 == undo_keep(Machine)
           m2 == update_dataframe([m1 EXCEPT !.undo = Front(m1.undo)], Last(m1.undo))
       IN Return(m2, Res("undo", "ok", "Undo applied successfully"))

undo ==
  IF undo_stack = <<>> THEN Return(Machine, Res("undo", "fail", "Nothing to undo"))
  ELSE LET m1 == undo_keep(Machine)
           m2 == update_dataframe([m1 EXCEPT !.undo = Front(m1.undo)], Last(m1.undo))
       IN Return(m2, Res("undo", "ok", "Undo applied successfully"))

redo ==
  IF redo_stack = <<>> THEN Return(Machine, Res("redo", "fail", "Nothing to redo"))
  ELSE LET m1 == redo_keep(Machine)
           m2 == update_dataframe([m1 EXCEPT !.redo = Front(m1.redo)], Last(m1.redo))
       IN Return(m2, Res("redo", "ok", "Redo applied successfully"))


(* --------------------------- CleaningEngine ---------------------------- *)
\* a cleaning operation succeeded with a new DataFrame object df2
CleanedNew(op, df2, payload) ==
  Return(LogIfId(StoreNew(Machine, df2), dataset_id, "cleaning", df2),
         ResP(op, "ok", "", payload))

\* a cleaning operation succeeded after assigning to the live frame in place
CleanedInPlace(op, df2, payload) ==
  Return(LogIfId(StoreInPlace(Machine, df2), dataset_id, "cleaning", df2),
         ResP(op, "ok", "", payload))

Shape(df) == <<df.n, Len(df.cols)>>

\* auto_clean counting the duplicate rows before it fills the missing values
auto_clean_counts_before_fill ==
  LET op  == "auto_clean"
      df  == get_dataframe(Machine)
      df2 == AutoCleanTable(df)
  IN IF IsEmpty(df)
     THEN Return(Machine, Res(op, "fail", "No dataset loaded or dataset is empty"))
     ELSE IF AutoCleanRaises(df)
     THEN Return(Machine, Res(op, "fail", "Auto cleaning failed"))
     ELSE CleanedNew(op, df2,
            [original_shape |-> Shape(df), new_shape |-> Shape(df2),
             duplicates_removed |-> DuplicatedSum(AutoCleanDrop(df)),
             columns_removed |-> Len(df.cols) - Len(df2.cols)])

auto_clean ==
  LET op  == "auto_clean"
      df  == get_dataframe(Machine)
      df2 == AutoCleanTable(df)
  IN IF IsEmpty(df)
     THEN Return(Machine, Res(op, "fail", "No dataset loaded or dataset is empty"))
     ELSE IF AutoCleanRaises(df)
     THEN Return(Machine, Res(op, "fail", "Auto cleaning failed"))
     ELSE CleanedNew(op, df2,
            [original_shape |-> Shape(df), new_shape |-> Shape(df2),
             duplicates_removed |-> DuplicatedSum(FillAll(AutoCleanDrop(df))),
             columns_removed |-> Len(df.cols) - Len(df2.cols)])

fill_missing_with_mean(column) ==
  LET op == "fill_missing_with_mean"
      df == get_dataframe(Machine)
      col == ColAt(df, column)
  IN IF ColumnCheck(df, column) # ""
     THEN Return(Machine, Res(op, "fail", ColumnCheck(df, column)))
     ELSE IF ~IsSeries(df, column)
     THEN Return(Machine, Res(op, "raise", "AttributeError"))
     ELSE IF ~IsNumericKind(col)
     THEN Return(Machine, Res(op, "fail", "Mean can only be applied to numeric columns"))
     ELSE CleanedInPlace(op,
            SetCol(df, column, col.dtype, Fillna(col.cells, MeanCell(col.cells))),
            <<MeanCell(col.cells)>>)

\* mode_values[0] on the DataFrame a duplicated name gives raises KeyError
fill_missing_with_mode(column) ==
  LET op == "fill_missing_with_mode"
      df == get_dataframe(Machine)
      col == ColAt(df, column)
      unknown == Str(<<"U", "n", "k", "n", "o", "w", "n">>)
  IN IF ColumnCheck(df, column) # ""
     THEN Return(Machine, Res(op, "fail", ColumnCheck(df, column)))
     ELSE IF ~IsSeries(df, column)
     THEN Return(Machine, Res(op, "fail", "Fill operation failed"))
     ELSE IF Modes(col.cells) # <<>>
     THEN CleanedInPlace(op,
            SetCol(df, column, col.dtype, Fillna(col.cells, Modes(col.cells)[1])),
            <<Modes(col.cells)[1]>>)
     ELSE CleanedInPlace(op,
            SetCol(df, column, IF col.cells = <<>> THEN col.dtype ELSE "O",
                   Fillna(col.cells, unknown)),
            <<unknown>>)

fill_missing_with_custom(column, value) ==
  LET op == "fill_missing_with_custom"
      df == get_dataframe(Machine)
      col == ColAt(df, column)
  IN IF ColumnCheck(df, column) # ""
     THEN Return(Machine, Res(op, "fail", ColumnCheck(df, column)))
     ELSE IF ~IsSeries(df, column)
     THEN Return(Machine, Res(op, "fail", "Fill operation failed"))
     ELSE IF IsNumericKind(col)
     THEN IF ~CustomParses(value)
          THEN Return(Machine, Res(op, "fail", "Fill operation failed"))
          ELSE CleanedInPlace(op,
                 SetCol(df, column, col.dtype,
                        Fillna(col.cells, Num(CustomValue(value)))),
                 <<Num(CustomValue(value))>>)
     ELSE CleanedInPlace(op,
            SetCol(df, column, col.dtype, Fillna(col.cells, Str(value))),
            <<Str(value)>>)

\* drop_column taking a snapshot for undo() as the forward operations do
drop_column_saving_undo_state(column) ==
  LET op == "drop_column"
      df == get_dataframe(Machine)
      m1 == save_undo_state(Machine)
  IN IF ColumnCheck(df, column) # ""
     THEN Return(Machine, Res(op, "fail", ColumnCheck(df, column)))
     ELSE Return(LogIfId(StoreNew(m1, DropColumn(df, column)), dataset_id,
                         "cleaning", DropColumn(df, column)),
                 ResP(op, "ok", "", <<>>))

drop_column(column) ==
  LET op == "drop_column"
      df == get_dataframe(Machine)
  IN IF ColumnCheck(df, column) # ""
     THEN Return(Machine, Res(op, "fail", ColumnCheck(df, column)))
     ELSE CleanedNew(op, DropColumn(df, column), <<>>)

remove_duplicates ==
  LET op == "remove_duplicates"
      df == get_dataframe(Machine)
  IN IF IsEmpty(df) THEN Return(Machine, Res(op, "fail", "No dataset loaded"))
     ELSE CleanedNew(op, DropDuplicates(df), <<DuplicatedSum(df)>>)

\* get_data_quality_summary: None (here the empty sequence) for an empty
\* frame, else the counts shown by the cleaning window
get_data_quality_summary ==
  LET df == get_dataframe(Machine)
  IN IF IsEmpty(df) THEN <<>>
     ELSE <<[total_rows |-> df.n,
             total_cols |-> Len(df.cols),
             missing_total |-> SumSeq([i \in DOMAIN df.cols |-> CountNA(df.cols[i].cells)]),
             duplicate_count |-> DuplicatedSum(df)]>>

(* --------------------------- DataValidator ----------------------------- *)
\* df.index: the row labels a frame carries, the RangeIndex 0, 1, ... of a
\* frame that was given none
Index(df) ==
  IF "index" \in DOMAIN df THEN df.index ELSE [r \in 1..df.n |-> r - 1]

\* the labels of the rows for which flags holds, in row order
\* (frame[mask].index.tolist())
LabelsOf(index, flags) ==
  LET idx == SelectIdx(flags, Len(flags), 1)
  IN [k \in DOMAIN idx |-> index[idx[k]]]

\* an f-string "Found <k> <what>"
Found(k, what) == "Found " \o Join(IntChars(k)) \o " " \o what

\* df.isnull().sum().sum()
MissingCount(df) ==
  SumSeq([i \in DOMAIN df.cols |-> CountNA(df.cols[i].cells)])

\* df.dtypes.value_counts().to_dict(): the number of columns of each dtype
DtypeCounts(df) ==
  [k \in {df.cols[i].dtype : i \in DOMAIN df.cols} |->
     Cardinality({i \in DOMAIN df.cols : df.cols[i].dtype = k})]

\* df.memory_usage(deep=True).sum() / 1024**2; the byte count is not
\* computed, the number of cells stands for it
MemoryUsageMb(df) == Sym("memory_usage_mb", df.n * Len(df.cols))

\* validate_dataframe rejecting only a frame without columns
validate_dataframe_accepts_no_rows(df) ==
  IF Len(df.cols) = 0
  THEN [is_valid |-> FALSE, errors |-> <<"Dataframe is empty">>,
        warnings |-> <<>>, info |-> <<>>]
  ELSE [is_valid |-> TRUE, errors |-> <<>>,
        warnings |->
          (IF MissingCount(df) > 0
           THEN <<Found(MissingCount(df), "missing values")>> ELSE <<>>)
          \o (IF DuplicatedSum(df) > 0
              THEN <<Found(DuplicatedSum(df), "duplicate rows")>> ELSE <<>>),
        info |-> [dtypes |-> DtypeCounts(df), shape |-> Shape(df),
                  memory_usage_mb |-> MemoryUsageMb(df)]]

\* DataValidator.validate_dataframe
validate_dataframe(df) ==
  IF IsEmpty(df)
  THEN [is_valid |-> FALSE, errors |-> <<"Dataframe is empty">>,
        warnings |-> <<>>, info |-> <<>>]
  ELSE [is_valid |-> TRUE, errors |-> <<>>,
        warnings |->
          (IF MissingCount(df) > 0
           THEN <<Found(MissingCount(df), "missing values")>> ELSE <<>>)
          \o (IF DuplicatedSum(df) > 0
              THEN <<Found(DuplicatedSum(df), "duplicate rows")>> ELSE <<>>),
        info |-> [dtypes |-> DtypeCounts(df), shape |-> Shape(df),
                  memory_usage_mb |-> MemoryUsageMb(df)]]

\* check_missing_values reporting every column, complete ones included
check_missing_values_all_columns(df) ==
  [nm \in {df.cols[i].name : i \in DOMAIN df.cols} |->
     [count |-> CountNA(ColAt(df, nm).cells),
      percentage |-> IF df.n = 0 THEN 0
                     ELSE Div(CountNA(ColAt(df, nm).cells) * 100 * SCALE, df.n)]]

\* DataValidator.check_missing_values: an entry for every column whose
\* missing count is positive; percentage in fixed point
check_missing_values(df) ==
  [nm \in {df.cols[i].name : i \in {j \in DOMAIN df.cols :
                                       CountNA(df.cols[j].cells) > 0}} |->
     [count |-> CountNA(ColAt(df, nm).cells),
      percentage |-> Div(CountNA(ColAt(df, nm).cells) * 100 * SCALE, df.n)]]

\* df.duplicated(keep=False): row r equals some other row
DuplicatedKeepFalse(df) ==
  [r \in 1..df.n |->
     Len(df.cols) > 0 /\ \E p \in 1..df.n : p # r /\ Row(df, p) = Row(df, r)]

\* check_duplicates reporting the rows drop_duplicates would remove
check_duplicates_keep_first(df) ==
  [duplicate_count |-> Len(LabelsOf(Index(df), Duplicated(df))),
   duplicate_indices |-> LabelsOf(Index(df), Duplicated(df))]

\* DataValidator.check_duplicates
check_duplicates(df) ==
  [duplicate_count |-> Len(LabelsOf(Index(df), DuplicatedKeepFalse(df))),
   duplicate_indices |-> LabelsOf(Index(df), DuplicatedKeepFalse(df))]

\* df[column] as a Series: cells, dtype and row labels
SeriesOf(df, column) ==
  [cells |-> ColAt(df, column).cells, dtype |-> ColAt(df, column).dtype,
   index |-> Index(df)]

\* 4 * series.quantile(j / 4) of the non-missing values vals (not empty):
\* linear interpolation between the two nearest order statistics
QuartileTimes4(vals, j) ==
  LET s   == SortAsc(vals)
      pos == (Len(s) - 1) * j
      lo  == pos \div 4 + 1
      rem == pos % 4
  IN IF rem = 0 THEN 4 * s[lo] ELSE 4 * s[lo] + (s[lo + 1] - s[lo]) * rem

\* bounds are kept as exact fractions over BoundDen; threshold is in
\* fixed point (1.5 is 3 * SCALE \div 2)
BoundDen == 4 * SCALE

\* (Q1 - threshold * IQR) * BoundDen
LowerTimes(vals, threshold) ==
  SCALE * QuartileTimes4(vals, 1)
    - threshold * (QuartileTimes4(vals, 3) - QuartileTimes4(vals, 1))

\* (Q3 + threshold * IQR) * BoundDen
UpperTimes(vals, threshold) ==
  SCALE * QuartileTimes4(vals, 3)
    + threshold * (QuartileTimes4(vals, 3) - QuartileTimes4(vals, 1))

\* a bound as a value: NaN for a series without values
BoundCell(vals, times) ==
  IF vals = <<>> THEN NA ELSE [t |-> "frac", v |-> times, s |-> <<>>]

\* the mask flagging the cells on or outside the bounds
IqrMask_inclusive(series, threshold) ==
  LET vals == Values(series.cells)
  IN [i \in DOMAIN series.cells |->
        /\ vals # <<>>
        /\ ~IsNA(series.cells[i])
        /\ \/ BoundDen * series.cells[i].v <= LowerTimes(vals, threshold)
           \/ BoundDen * series.cells[i].v >= UpperTimes(vals, threshold)]

\* (series < lower_bound) | (series > upper_bound): a comparison with NaN
\* on either side is False
IqrMask(series, threshold) ==
  LET vals == Values(series.cells)
  IN [i \in DOMAIN series.cells |->
        /\ vals # <<>>
        /\ ~IsNA(series.cells[i])
        /\ \/ BoundDen * series.cells[i].v < LowerTimes(vals, threshold)
           \/ BoundDen * series.cells[i].v > UpperTimes(vals, threshold)]

\* Series.quantile raises TypeError on a column that is not numeric
QuantileRaises(series) == series.dtype \notin {"i", "f", "b"}

\* the threshold 1.5 written into check_outliers_iqr
DefaultThreshold == (3 * SCALE) \div 2

\* DataValidator.check_outliers_iqr
check_outliers_iqr(series) ==
  LET vals == Values(series.cells)
      mask == IqrMask(series, DefaultThreshold)
  IN [outlier_count |-> Len(LabelsOf(series.index, mask)),
      outlier_indices |-> LabelsOf(series.index, mask),
      lower_bound |-> BoundCell(vals, IF vals = <<>> THEN 0
                                      ELSE LowerTimes(vals, DefaultThreshold)),
      upper_bound |-> BoundCell(vals, IF vals = <<>> THEN 0
                                      ELSE UpperTimes(vals, DefaultThreshold))]

\* OutlierDetector.detect_iqr_outliers: the boolean mask
detect_iqr_outliers(series, threshold) == IqrMask(series, threshold)

(* --------------------------- loading a dataset ------------------------- *)
N(k) == Num(k * SCALE)

S(ch) == Str(<<ch>>)

\* the files the user can upload
Uploads ==
  { DF(<<Col("x", "f", <<N(1), NA, N(3)>>),
         Col("c", "O", <<S("a"), S("a"), S("a")>>)>>, 3),
    DF(<<Col("x", "i", <<N(1), N(2), N(2)>>),
         Col("y", "i", <<N(3), N(3), N(3)>>)>>, 3),
    DF(<<Col("x", "O", <<>>)>>, 0) }

\* upload_dataset emptying both stacks when the new dataset is set
upload_dataset_clearing_stacks(df, outcome) ==
  LET m1 == Alloc(Machine, df)
      m2 == [m1 EXCEPT !.cur = NewId(Machine), !.undo = <<>>, !.redo = <<>>]
      m3 == IF outcome = "raise" THEN m2
            ELSE log_operation(m2, IF outcome = "id" THEN 1 ELSE NoDataset, "import", df)
  IN /\ Return(m3, Res("upload_dataset", "ok", outcome))
     /\ dataset_id' = CASE outcome = "id" -> 1
                        [] outcome = "none" -> NoDataset
                        [] OTHER -> dataset_id

\* DatasetCleanerUI.upload_dataset: a new Dataset replaces the current one;
\* insert_dataset gives a row id ("id": the database, or the mock manager
\* used when none was reachable at start), gives None ("none": the insert
\* met a database error), or an exception leaves the inner try ("raise"),
\* which keeps the old dataset_id and skips the import log entry
upload_dataset(df, outcome) ==
  LET m1 == Alloc(Machine, df)
      m2 == [m1 EXCEPT !.cur = NewId(Machine)]
      m3 == IF outcome = "raise" THEN m2
            ELSE log_operation(m2, IF outcome = "id" THEN 1 ELSE NoDataset, "import", df)
  IN /\ Return(m3, Res("upload_dataset", "ok", outcome))
     /\ dataset_id' = CASE outcome = "id" -> 1
                        [] outcome = "none" -> NoDataset
                        [] OTHER -> dataset_id

(* --------------------------- specification ----------------------------- *)
ColumnInputs == Range(Names(get_dataframe(Machine))) \cup {"nope"}

BinInputs == {2, -2}

DegreeInputs == {2}

ComponentInputs == {1, 3}

FeatureNameInputs == {"f", "x", ""}

ExpressionInputs == {"df['x'] * 2", "df['nope']", ""}

ValueInputs == {<<"2", ".", "5">>, <<"a", "b", "c">>}

Init ==
  /\ heap = <<>>
  /\ current_dataset = NoDataset
  /\ dataset_id = NoDataset
  /\ undo_stack = <<>>
  /\ redo_stack = <<>>
  /\ local_logs = <<>>
  /\ pc = "idle"
  /\ result = NoResult
  /\ c1 = C1Off
  /\ run = RunOff
  /\ cleaned = 0
  /\ deduped = 0
  /\ calls = 0
  /\ database_up \in BOOLEAN

\* the user interface waits for a command and the explored number of calls
\* is not used up
Ready == pc = "idle" /\ calls < MaxCalls

Standardize == Ready /\ \E c \in ColumnInputs : standardize_column(c) /\ UNCHANGED <<dataset_id, database_up>>

MinMaxScaleOp == Ready /\ \E c \in ColumnInputs : minmax_scale_column(c) /\ UNCHANGED <<dataset_id, database_up>>

RobustScaleOp == Ready /\ \E c \in ColumnInputs : robust_scale_column(c) /\ UNCHANGED <<dataset_id, database_up>>

LogOp == Ready /\ \E c \in ColumnInputs : log_transform_column(c) /\ UNCHANGED <<dataset_id, database_up>>

SqrtOp == Ready /\ \E c \in ColumnInputs : sqrt_transform_column(c) /\ UNCHANGED <<dataset_id, database_up>>

BinOp == Ready /\ \E c \in ColumnInputs, n \in BinInputs : bin_column(c, n) /\ UNCHANGED <<dataset_id, database_up>>

PolyOp ==
  Ready /\ \E c \in ColumnInputs, d \in DegreeInputs :
    create_polynomial_features(c, d) /\ UNCHANGED <<dataset_id, database_up>>

OneHotOp == Ready /\ \E c \in ColumnInputs : one_hot_encode_column(c) /\ UNCHANGED <<dataset_id, database_up>>

LabelOp == Ready /\ \E c \in ColumnInputs : label_encode_column(c) /\ UNCHANGED <<dataset_id, database_up>>

PCAOp == Ready /\ \E n \in ComponentInputs : apply_pca(n) /\ UNCHANGED <<dataset_id, database_up>>

CustomOp ==
  Ready /\ \E f \in FeatureNameInputs, e \in ExpressionInputs :
    create_custom_feature(f, e) /\ UNCHANGED <<dataset_id, database_up>>

Undo == pc = "idle" /\ undo /\ UNCHANGED <<dataset_id, database_up>>

Redo == pc = "idle" /\ redo /\ UNCHANGED <<dataset_id, database_up>>

AutoClean == Ready /\ auto_clean /\ UNCHANGED <<dataset_id, database_up>>

FillMean == Ready /\ \E c \in ColumnInputs : fill_missing_with_mean(c) /\ UNCHANGED <<dataset_id, database_up>>

FillMode == Ready /\ \E c \in ColumnInputs : fill_missing_with_mode(c) /\ UNCHANGED <<dataset_id, database_up>>

FillCustom ==
  Ready /\ \E c \in ColumnInputs, v \in ValueInputs :
    fill_missing_with_custom(c, v) /\ UNCHANGED <<dataset_id, database_up>>

DropCol == Ready /\ \E c \in ColumnInputs : drop_column(c) /\ UNCHANGED <<dataset_id, database_up>>

RemoveDuplicates == Ready /\ remove_duplicates /\ UNCHANGED <<dataset_id, database_up>>

Upload ==
  /\ Ready
  /\ \E df \in Uploads, outcome \in {IF database_up THEN "id" ELSE "none", "raise"} :
       upload_dataset(df, outcome)
  /\ UNCHANGED database_up

\* FeatureWindow.handle_result and its counterparts: the window shows the
\* returned message and waits for the next command
handle_result ==
  /\ pc = "returned"
  /\ pc' = "idle"
  /\ result' = NoResult
  /\ UNCHANGED <<heap, current_dataset, dataset_id, undo_stack, redo_stack,
                 local_logs, c1, run, cleaned, deduped, calls, database_up>>

Next ==
  \/ handle_result
  \/ Standardize \/ MinMaxScaleOp \/ RobustScaleOp \/ LogOp \/ SqrtOp
  \/ BinOp \/ PolyOp \/ OneHotOp \/ LabelOp \/ PCAOp \/ CustomOp
  \/ Undo \/ Redo
  \/ AutoClean \/ FillMean \/ FillMode \/ FillCustom \/ DropCol
  \/ RemoveDuplicates
  \/ Upload

Spec == Init /\ [][Next]_vars

(* --------------------------- auto_clean on its own ---------------------- *)
\* the rows of the tables auto_clean is applied to: numbers, a missing
\* number, a repeated text, a missing-value indicator
CleanRowSet ==
  { <<N(1), S("a")>>, <<N(2), S("b")>>, <<NA, S("a")>>, <<N(1), S("?")>> }

\* read_csv gives a column of whole numbers int64, one with a missing value
\* float64, one of text object
CleanTables ==
  { DF(<<Col("x",
             IF \E r \in 1..MaxRows : IsNA(rows[r][1]) THEN "f" ELSE "i",
             [r \in 1..MaxRows |-> rows[r][1]]),
         Col("c", "O", [r \in 1..MaxRows |-> rows[r][2]])>>, MaxRows) :
      rows \in [1..MaxRows -> CleanRowSet] }

\* a session in which one of CleanTables has been uploaded and insert_dataset
\* returned None
InitClean ==
  /\ \E df \in CleanTables : heap = <<df>>
  /\ current_dataset = 1
  /\ dataset_id = NoDataset
  /\ undo_stack = <<>>
  /\ redo_stack = <<>>
  /\ local_logs = <<[dataset_id |-> NoDataset, operation_type |-> "import",
                     written |-> TRUE]>>
  /\ pc = "idle"
  /\ result = NoResult
  /\ c1 = C1Off
  /\ run = RunOff
  /\ cleaned = 0
  /\ deduped = 0
  /\ calls = 0
  /\ database_up = FALSE

NextClean == AutoClean \/ RemoveDuplicates \/ OneHotOp \/ handle_result

SpecClean == InitClean /\ [][NextClean]_vars

(* --------------------------- stage 1 of auto_clean on its own ----------- *)
\* the texts of the cells stage 1 is applied to: the indicators, other
\* spellings of them, and an ordinary value
IndicatorTexts ==
  MissingIndicators
    \cup { <<"N", "A">>, <<"n", "a", "n">>, <<"N", "/", "A">>, <<" ", "?">>,
           <<"N", "u", "l", "l">>, <<"N", "O", "N", "E">>, <<"-">>, <<"a">> }

\* one-row tables with two text columns and a column of whole numbers
IndicatorTables ==
  { DF(<<Col("c", "O", <<Str(a)>>), Col("d", "O", <<Str(b)>>),
         Col("x", "i", <<N(1)>>)>>, 1) : a \in IndicatorTexts, b \in IndicatorTexts }

\* a session in which one of IndicatorTables is the live table and
\* insert_dataset returned None
InitIndicators ==
  /\ \E df \in IndicatorTables : heap = <<df>>
  /\ current_dataset = 1
  /\ dataset_id = NoDataset
  /\ undo_stack = <<>>
  /\ redo_stack = <<>>
  /\ local_logs = <<[dataset_id |-> NoDataset, operation_type |-> "import",
                     written |-> TRUE]>>
  /\ pc = "idle"
  /\ result = NoResult
  /\ c1 = C1Off
  /\ run = RunOff
  /\ cleaned = 0
  /\ deduped = 0
  /\ calls = 0
  /\ database_up = FALSE

NextIndicators == AutoClean \/ handle_result

SpecIndicators == InitIndicators /\ [][NextIndicators]_vars

(* --------------------------- the transforms on their own --------------- *)
\* the rows of the float columns the transforms are applied to
TransformRows == 3

\* small numbers, and floats of magnitude 2^54 and above
TransformCells ==
  { [1..TransformRows -> {NA, N(-5), N(0), N(1), N(10)}],
    [1..TransformRows -> {NA, N(0), Huge(-1), Huge(1)}] }

\* tables with one float column x that holds a value
TransformTables ==
  { DF(<<Col("x", "f", cells)>>, TransformRows) :
      cells \in {cs \in UNION TransformCells : \E r \in DOMAIN cs : ~IsNA(cs[r])} }

\* a session in which one of TransformTables has been uploaded and
\* insert_dataset returned None
InitTransform ==
  /\ \E df \in TransformTables : heap = <<df>>
  /\ current_dataset = 1
  /\ dataset_id = NoDataset
  /\ undo_stack = <<>>
  /\ redo_stack = <<>>
  /\ local_logs = <<[dataset_id |-> NoDataset, operation_type |-> "import",
                     written |-> TRUE]>>
  /\ pc = "idle"
  /\ result = NoResult
  /\ c1 = C1Off
  /\ run = RunOff
  /\ cleaned = 0
  /\ deduped = 0
  /\ calls = 0
  /\ database_up = FALSE

\* the number of transforms explored in a session
MaxTransforms == 1

LogTransformOnce ==
  /\ pc = "idle"
  /\ calls < MaxTransforms
  /\ \E c \in ColumnInputs : log_transform_column(c)
  /\ UNCHANGED <<dataset_id, database_up>>

SqrtTransformOnce ==
  /\ pc = "idle"
  /\ calls < MaxTransforms
  /\ \E c \in ColumnInputs : sqrt_transform_column(c)
  /\ UNCHANGED <<dataset_id, database_up>>

NextTransform == LogTransformOnce \/ SqrtTransformOnce \/ handle_result

SpecTransform == InitTransform /\ [][NextTransform]_vars

(* --------------------------- fill_missing_with_custom on its own -------- *)
\* the characters of the values typed into the custom-value dialog
RawAlphabet == {"1", "2", ".", "-", "a"}

\* the longest value typed
MaxRaw == 3

\* every string over RawAlphabet of at most MaxRaw characters
RawInputs == UNION {[1..k -> RawAlphabet] : k \in 0..MaxRaw}

\* tables with a float column, a text column (both with a missing cell) and
\* an int column
FillTables ==
  { DF(<<Col("x", "f", <<N(1), NA>>),
         Col("c", "O", <<S("a"), NA>>),
         Col("y", "i", <<N(3), N(4)>>)>>, 2),
    DF(<<Col("x", "f", <<NA, N(2), NA>>),
         Col("c", "O", <<NA, S("b"), S("b")>>)>>, 3) }

\* a session in which one of FillTables has been uploaded and insert_dataset
\* returned None
InitFill ==
  /\ \E df \in FillTables : heap = <<df>>
  /\ current_dataset = 1
  /\ dataset_id = NoDataset
  /\ undo_stack = <<>>
  /\ redo_stack = <<>>
  /\ local_logs = <<[dataset_id |-> NoDataset, operation_type |-> "import",
                     written |-> TRUE]>>
  /\ pc = "idle"
  /\ result = NoResult
  /\ c1 = C1Off
  /\ run = RunOff
  /\ cleaned = 0
  /\ deduped = 0
  /\ calls = 0
  /\ database_up = FALSE

\* the number of custom fills explored in a session
MaxFills == 1

\* CleaningWindow: the value is what simpledialog.askstring returned
FillCustomTyped ==
  /\ pc = "idle"
  /\ calls < MaxFills
  /\ \E c \in ColumnInputs, v \in RawInputs :
       fill_missing_with_custom(c, v) /\ UNCHANGED <<dataset_id, database_up>>

NextFill == FillCustomTyped \/ handle_result

SpecFill == InitFill /\ [][NextFill]_vars

(* --------------------------- one_hot_encode_column on its own ---------- *)
\* tables of one text column c of two rows
OneHotTables ==
  { DF(<<Col("c", "O", cells)>>, 2) : cells \in [1..2 -> {S("a"), S("b"), NA}] }

\* a session in which one of OneHotTables has been uploaded and
\* insert_dataset returned None
InitOneHot ==
  /\ \E df \in OneHotTables : heap = <<df>>
  /\ current_dataset = 1
  /\ dataset_id = NoDataset
  /\ undo_stack = <<>>
  /\ redo_stack = <<>>
  /\ local_logs = <<[dataset_id |-> NoDataset, operation_type |-> "import",
                     written |-> TRUE]>>
  /\ pc = "idle"
  /\ result = NoResult
  /\ c1 = C1Off
  /\ run = RunOff
  /\ cleaned = 0
  /\ deduped = 0
  /\ calls = 0
  /\ database_up = FALSE

NextOneHot == OneHotOp \/ handle_result

SpecOneHot == InitOneHot /\ [][NextOneHot]_vars

(* --------------------------- create_polynomial_features on its own ---- *)
\* the values of the int64 column x: small whole numbers, 2^21 and 2^32
PolyCells == {N(2), N(-3), Pow2(21), Pow2(32)}

\* tables of one int64 column x of two rows
PolyTables ==
  { DF(<<Col("x", "i", cells)>>, 2) : cells \in [1..2 -> PolyCells] }

\* a session in which one of PolyTables has been uploaded and insert_dataset
\* returned None
InitPoly ==
  /\ \E df \in PolyTables : heap = <<df>>
  /\ current_dataset = 1
  /\ dataset_id = NoDataset
  /\ undo_stack = <<>>
  /\ redo_stack = <<>>
  /\ local_logs = <<[dataset_id |-> NoDataset, operation_type |-> "import",
                     written |-> TRUE]>>
  /\ pc = "idle"
  /\ result = NoResult
  /\ c1 = C1Off
  /\ run = RunOff
  /\ cleaned = 0
  /\ deduped = 0
  /\ calls = 0
  /\ database_up = FALSE

\* the degrees create_polynomial_features is called with (its default is 2,
\* it accepts any int)
PolyDegrees == {1, 2, 3}

\* the number of calls explored in a session
MaxPolys == 2

PolyAnyDegree ==
  /\ pc = "idle"
  /\ calls < MaxPolys
  /\ \E c \in ColumnInputs, d \in PolyDegrees :
       create_polynomial_features(c, d) /\ UNCHANGED <<dataset_id, database_up>>

NextPoly == PolyAnyDegree \/ Undo \/ handle_result

SpecPoly == InitPoly /\ [][NextPoly]_vars

(* --------------------------- sessions that empty the table ------------ *)
\* every operation, from a session in which a table of one text column has
\* been uploaded
SpecEmpty == InitOneHot /\ [][Next]_vars

(* --------------------------- the validator on its own ------------------ *)
\* the rows of the frames the validator is applied to: numbers, a missing
\* number, a repeated text, a missing text
ValidatorRowSet ==
  { <<N(1), S("a")>>, <<N(2), S("b")>>, <<NA, S("a")>>, <<N(2), NA>> }

\* the frames of n rows read_csv gives; a column without rows is object
FramesOfRows(n) ==
  { DF(<<Col("x",
             IF n = 0 THEN "O"
             ELSE IF \E r \in 1..n : IsNA(rows[r][1]) THEN "f" ELSE "i",
             [r \in 1..n |-> rows[r][1]]),
         Col("c", "O", [r \in 1..n |-> rows[r][2]])>>, n) :
      rows \in [1..n -> ValidatorRowSet] }

\* a frame whose first row was removed by drop_duplicates, which keeps the
\* labels of the rows it keeps: the labels are 1, 2, ...
Relabelled(df) ==
  [cols |-> df.cols, n |-> df.n, index |-> [r \in 1..df.n |-> r]]

\* pd.DataFrame(), header-only and longer frames, with and without the
\* default labels
ValidatorFrames ==
  LET frames == {EmptyDF} \cup UNION {FramesOfRows(n) : n \in 0..MaxRows}
  IN frames \cup {Relabelled(df) : df \in {f \in frames : f.n > 0}}

ThresholdInputs == {DefaultThreshold, 3 * SCALE}

InitValidator ==
  /\ \E df \in ValidatorFrames : heap = <<df>>
  /\ current_dataset = 1
  /\ dataset_id = NoDataset
  /\ undo_stack = <<>>
  /\ redo_stack = <<>>
  /\ local_logs = <<>>
  /\ pc = "idle"
  /\ result = NoResult
  /\ c1 = C1Off
  /\ run = RunOff
  /\ cleaned = 0
  /\ deduped = 0
  /\ calls = 0
  /\ database_up = FALSE

\* the validator's functions read the frame they are given and return
ValidateDataframe ==
  /\ Ready
  /\ Return(Machine, ResP("validate_dataframe", "ok", "",
                          validate_dataframe(get_dataframe(Machine))))
  /\ UNCHANGED <<dataset_id, database_up>>

CheckMissingValues ==
  /\ Ready
  /\ Return(Machine, ResP("check_missing_values", "ok", "",
                          check_missing_values(get_dataframe(Machine))))
  /\ UNCHANGED <<dataset_id, database_up>>

CheckDuplicates ==
  /\ Ready
  /\ Return(Machine, ResP("check_duplicates", "ok", "",
                          check_duplicates(get_dataframe(Machine))))
  /\ UNCHANGED <<dataset_id, database_up>>

CheckOutliersIqr ==
  /\ Ready
  /\ \E c \in Range(Names(get_dataframe(Machine))) :
       LET series == SeriesOf(get_dataframe(Machine), c)
       IN IF QuantileRaises(series)
          THEN Return(Machine, ResP("check_outliers_iqr", "raise", "TypeError",
                                    [series |-> series]))
          ELSE Return(Machine, ResP("check_outliers_iqr", "ok", "",
                                    [series |-> series,
                                     report |-> check_outliers_iqr(series)]))
  /\ UNCHANGED <<dataset_id, database_up>>

DetectIqrOutliers ==
  /\ Ready
  /\ \E c \in Range(Names(get_dataframe(Machine))), t \in ThresholdInputs :
       LET series == SeriesOf(get_dataframe(Machine), c)
       IN IF QuantileRaises(series)
          THEN Return(Machine, ResP("detect_iqr_outliers", "raise", "TypeError",
                                    [series |-> series, threshold |-> t]))
          ELSE Return(Machine, ResP("detect_iqr_outliers", "ok", "",
                                    [series |-> series, threshold |-> t,
                                     mask |-> detect_iqr_outliers(series, t)]))
  /\ UNCHANGED <<dataset_id, database_up>>

NextValidator ==
  \/ ValidateDataframe \/ CheckMissingValues \/ CheckDuplicates
  \/ CheckOutliersIqr \/ DetectIqrOutliers
  \/ handle_result

SpecValidator == InitValidator /\ [][NextValidator]_vars

(* --------------------------- observing a call -------------------------- *)
\* the engine's state after the step
MachineNext ==
  [heap |-> heap', cur |-> current_dataset', undo |-> undo_stack',
   redo |-> redo_stack', logs |-> local_logs']

\* the step is a call of one of ops, from the command to its return
Called(ops) == pc = "idle" /\ pc' = "returned" /\ result'.op \in ops

\* the tables held on the two stacks, bottom first
Snapshots(m) == <<Tables(m, m.undo), Tables(m, m.redo)>>

\* the step leaves the live table and both stacks as they were
SameTables ==
  /\ Live(MachineNext) = Live(Machine)
  /\ Snapshots(MachineNext) = Snapshots(Machine)

(* --------------------------- properties -------------------------------- *)
\* C1: after a successful FeatureEngine forward operation that turned the
\* live table T into T2, an undo() called next makes the live table equal
\* to T, and a redo() called right after that undo() makes it equal to T2.
C1_UndoRedoRoundTrip ==
  /\ c1.phase = 2 => Live(Machine) = c1.T
  /\ c1.phase = 3 => Live(Machine) = c1.T2

\* a forward operation changed the table, was undone and redone
C1_Witness ==
  /\ c1.phase = 3
  /\ c1.T # c1.T2
  /\ result.op = "redo"
  /\ result.status = "ok"

\* C2: every CleaningEngine or FeatureEngine operation that returns Failure
\* leaves the live table, undo_stack and redo_stack exactly as they were.
C2_FailureChangesNothing ==
  [][Called(FeatureOps \cup CleaningOps) /\ result'.status = "fail"
       => SameTables]_vars

\* C3: right after any successful forward mutation (FeatureEngine forward
\* operation or CleaningEngine mutation) redo_stack is empty.
C3_MutationClearsRedo ==
  [][Called(FeatureOps \cup CleaningOps) /\ result'.status = "ok"
       => redo_stack' = <<>>]_vars

\* C4: with a non-empty undo_stack, undo() makes the popped top the live
\* table and pushes the table that was live onto redo_stack, so the depths
\* move by one and their sum is kept, whatever the live table is; redo() is
\* the mirror image on a non-empty redo_stack.
C4_UndoRedoConserveDepth ==
  [][/\ Called({"undo"}) /\ undo_stack # <<>>
          => /\ Live(MachineNext) = heap[Last(undo_stack)]
             /\ Len(undo_stack') = Len(undo_stack) - 1
             /\ Len(redo_stack') = Len(redo_stack) + 1
             /\ heap'[Last(redo_stack')] = Live(Machine)
     /\ Called({"redo"}) /\ redo_stack # <<>>
          => /\ Live(MachineNext) = heap[Last(redo_stack)]
             /\ Len(redo_stack') = Len(redo_stack) - 1
             /\ Len(undo_stack') = Len(undo_stack) + 1
             /\ heap'[Last(undo_stack')] = Live(Machine)]_vars

\* a failing forward operation grew undo_stack
C2_Diverges ==
  /\ result.op \in FeatureOps
  /\ result.status = "fail"
  /\ undo_stack # <<>>
  /\ calls = 2

\* C5: undo() returns Failure "Nothing to undo" exactly when undo_stack is
\* empty and redo() returns Failure "Nothing to redo" exactly when redo_stack
\* is empty; a failing call leaves the live table and both stacks unchanged;
\* a new engine has both stacks empty.
C5_FailsIffEmpty ==
  /\ undo_stack = <<>> /\ redo_stack = <<>>
  /\ [][/\ Called({"undo"})
             => /\ result'.status \in {"ok", "fail"}
                /\ result'.status = "fail" <=> undo_stack = <<>>
                /\ result'.status = "fail"
                     => result'.msg = "Nothing to undo" /\ SameTables
        /\ Called({"redo"})
             => /\ result'.status \in {"ok", "fail"}
                /\ result'.status = "fail" <=> redo_stack = <<>>
                /\ result'.status = "fail"
                     => result'.msg = "Nothing to redo" /\ SameTables]_vars

\* redo() failed on an empty redo_stack while undo_stack held a snapshot
C5_Witness ==
  /\ result.op = "redo"
  /\ result.status = "fail"
  /\ redo_stack = <<>>
  /\ undo_stack # <<>>

\* C6: the stacks are LIFO.  From empty stacks and live table T0, after n
\* successful forward operations giving T1..Tn, k undo() calls in a row
\* (k <= n) leave the live table equal to T(n-k) with n-k snapshots on
\* undo_stack and k on redo_stack; one more undo() after the n-th fails;
\* j <= k redo() calls in a row afterwards leave T(n-k+j), so k of them
\* restore Tn with n snapshots on undo_stack and none on redo_stack.
C6_LIFO ==
  LET n == Len(run.ts) - 1
  IN /\ run.phase = "fwd"
          => /\ Live(Machine) = run.ts[n + 1]
             /\ Len(undo_stack) = n
             /\ redo_stack = <<>>
     /\ run.phase = "undo"
          => /\ Live(Machine) = run.ts[n - run.k + 1]
             /\ Len(undo_stack) = n - run.k
             /\ Len(redo_stack) = run.k
             /\ pc = "returned" => result.status = IF run.over THEN "fail" ELSE "ok"
     /\ run.phase = "redo"
          => /\ Live(Machine) = run.ts[n - run.k + run.j + 1]
             /\ Len(undo_stack) = n - run.k + run.j
             /\ Len(redo_stack) = run.k - run.j
             /\ pc = "returned" => result.status = "ok"

\* two forward operations, two undo() calls, a third that failed, two redo()
\* calls
C6_Witness ==
  /\ run.phase = "redo"
  /\ Len(run.ts) = 3
  /\ run.ts[1] # run.ts[2]
  /\ run.ts[2] # run.ts[3]
  /\ run.k = 2
  /\ run.over
  /\ run.j = 2

\* the step appends exactly one event, recorded once the store held the
\* operation's table
OneEvent ==
  /\ Len(local_logs') = Len(local_logs) + 1
  /\ Front(local_logs') = local_logs
  /\ Last(local_logs').written

\* C7 as the specification states it: every successful mutating operation
\* (CleaningEngine mutation or FeatureEngine forward operation) records
\* exactly one Audit Log event, after the table has been written back; a
\* failing operation records none; undo() and redo() never record one.
C7_OneEventPerSuccess ==
  [][/\ Called(FeatureOps \cup CleaningOps) /\ result'.status = "ok" => OneEvent
     /\ Called(FeatureOps \cup CleaningOps) /\ result'.status # "ok"
          => local_logs' = local_logs
     /\ Called({"undo", "redo"}) => local_logs' = local_logs]_vars

\* C7 as the code has it: a successful mutating operation called with a
\* dataset id records exactly one Audit Log event, after the table has been
\* written back, and one called without a dataset id records none; a failing
\* operation records none; undo() and redo() never record one.
C7_OneEventPerSuccessWithId ==
  [][/\ Called(FeatureOps \cup CleaningOps) /\ result'.status = "ok"
          => IF dataset_id # NoDataset
             THEN OneEvent /\ Last(local_logs').dataset_id = dataset_id
             ELSE local_logs' = local_logs
     /\ Called(FeatureOps \cup CleaningOps) /\ result'.status # "ok"
          => local_logs' = local_logs
     /\ Called({"undo", "redo"}) => local_logs' = local_logs]_vars

\* a forward operation and a cleaning operation each left their event, and
\* an undo() was then called
C7_Witness ==
  /\ Len(local_logs) = 3
  /\ local_logs[2].operation_type = "feature_engineering"
  /\ local_logs[3].operation_type = "cleaning"
  /\ result.op = "undo"
  /\ result.status = "ok"

\* the references held by the store and the two stacks
Refs ==
  (IF current_dataset # NoDataset THEN <<current_dataset>> ELSE <<>>)
    \o undo_stack \o redo_stack

\* C8: a snapshot is immutable once captured: no entry of undo_stack or
\* redo_stack is the same object as the live table or as another entry, and
\* no operation changes the contents of a snapshot that stays on its stack.
C8_SnapshotsImmutable ==
  /\ [](\A i, j \in DOMAIN Refs : i # j => Refs[i] # Refs[j])
  /\ [][/\ \A i \in DOMAIN undo_stack \cap DOMAIN undo_stack' :
              heap'[undo_stack'[i]] = heap[undo_stack[i]]
        /\ \A i \in DOMAIN redo_stack \cap DOMAIN redo_stack' :
              heap'[redo_stack'[i]] = heap[redo_stack[i]]]_vars

\* fill_missing_with_mean changed the live table in place while the snapshot
\* taken by a forward operation, equal to the table before that fill, stayed
\* on undo_stack
C8_Witness ==
  /\ result.op = "fill_missing_with_mean"
  /\ result.status = "ok"
  /\ undo_stack # <<>>
  /\ c1.phase = 0
  /\ heap[Last(undo_stack)] # Live(Machine)
  /\ CountNA(ColAt(heap[Last(undo_stack)], "x").cells) > 0
  /\ CountNA(ColAt(Live(Machine), "x").cells) = 0

\* C9: in every reachable state the column names of the live table are
\* pairwise distinct.
C9_UniqueColumnNames == NoDuplicateNames(Live(Machine))

\* one_hot_encode_column, called twice on one column, left two columns of
\* one name
C9_Diverges ==
  /\ result.op = "one_hot_encode_column"
  /\ result.status = "ok"
  /\ ~NoDuplicateNames(Live(Machine))

\* C10: auto_clean is idempotent: called again on the table a successful
\* auto_clean stored, it leaves the stored table equal to it, and when it
\* succeeds it reports no column removed and no duplicate removed.
C10_AutoCleanIdempotent ==
  [][Called({"auto_clean"}) /\ cleaned >= 1
       => /\ Live(MachineNext) = Live(Machine)
          /\ result'.status = "ok"
               => /\ result'.payload.duplicates_removed = 0
                  /\ result'.payload.columns_removed = 0
                  /\ result'.payload.new_shape = result'.payload.original_shape]_vars

\* a second auto_clean in a row succeeded on a table in which the first had
\* filled a missing number with the mean and removed rows
C10_Witness ==
  /\ cleaned = 2
  /\ result.op = "auto_clean"
  /\ Len(Live(Machine).cols) = 2
  /\ Live(Machine).n \in 2..(MaxRows - 1)
  /\ \E r \in 1..Live(Machine).n :
       ColAt(Live(Machine), "x").cells[r] \notin {N(1), N(2), NA}

\* C11: a successful remove_duplicates keeps exactly the first occurrence of
\* each distinct row, in the original order, and reports the number of rows
\* it removed (rows before minus rows after); the table it leaves has no two
\* equal rows, so check_duplicates on it reports count 0 and no index, and a
\* second remove_duplicates in a row succeeds, removes zero rows and leaves
\* the table unchanged.
C11_RemoveDuplicatesKeepsFirst ==
  [][Called({"remove_duplicates"})
       => LET pre   == Live(Machine)
              post  == Live(MachineNext)
              first == {r \in 1..pre.n :
                          \A p \in 1..(r - 1) : Row(pre, p) # Row(pre, r)}
              kth(k) == CHOOSE r \in first :
                          Cardinality({q \in first : q <= r}) = k
          IN /\ result'.status = "ok"
                  => /\ post.n = Cardinality(first)
                     /\ Names(post) = Names(pre)
                     /\ \A k \in 1..post.n : Row(post, k) = Row(pre, kth(k))
                     /\ result'.payload[1] = pre.n - post.n
                     /\ \A p, r \in 1..post.n :
                          p # r => Row(post, p) # Row(post, r)
                     /\ check_duplicates(post).duplicate_count = 0
                     /\ check_duplicates(post).duplicate_indices = <<>>
             /\ deduped >= 1
                  => /\ result'.status = "ok"
                     /\ result'.payload[1] = 0
                     /\ post = pre]_vars

\* remove_duplicates removed rows, and called again it removed none
C11_Witness ==
  /\ deduped = 2
  /\ calls = 2
  /\ result.op = "remove_duplicates"
  /\ result.payload[1] = 0
  /\ Live(Machine).n \in 2..(MaxRows - 1)

\* C12: check_duplicates reports every row that equals some other row (all
\* members of each group of equal rows), remove_duplicates counts only the
\* occurrences after the first: duplicate_count = duplicates removed +
\* number of groups, so duplicate_count is 0 or at least 2, and larger than
\* the number removed whenever a duplicate exists.
C12_ReportCountsWholeGroups ==
  pc = "returned" /\ result.op = "check_duplicates"
    => LET df      == Live(Machine)
           members == {r \in 1..df.n :
                         \E p \in 1..df.n : p # r /\ Row(df, p) = Row(df, r)}
           groups  == {Row(df, r) : r \in members}
           removed == DuplicatedSum(df)
           report  == result.payload
       IN /\ report.duplicate_count = Cardinality(members)
          /\ Len(report.duplicate_indices) = report.duplicate_count
          /\ Range(report.duplicate_indices) = {Index(df)[r] : r \in members}
          /\ report.duplicate_count = removed + Cardinality(groups)
          /\ report.duplicate_count = 0 \/ report.duplicate_count >= 2
          /\ removed > 0 => report.duplicate_count > removed
          /\ removed = df.n - DropDuplicates(df).n

\* three rows, the third equal to the first: count 2, one would be removed,
\* two rows would remain
C12_Witness ==
  /\ pc = "returned"
  /\ result.op = "check_duplicates"
  /\ Live(Machine).n = 3
  /\ Row(Live(Machine), 1) = Row(Live(Machine), 3)
  /\ Row(Live(Machine), 1) # Row(Live(Machine), 2)
  /\ result.payload.duplicate_count = 2
  /\ DuplicatedSum(Live(Machine)) = 1
  /\ DropDuplicates(Live(Machine)).n = 2

\* C13: stage 3 of auto_clean drops a column that survived stage 2 exactly
\* when its missing count is at least 0.8 x row count; a column with fewer
\* missing cells is kept.
C13_DropsAtEightyPercentMissing ==
  [][Called({"auto_clean"}) /\ result'.status = "ok"
       => LET pre  == ReplaceIndicators(Live(Machine))
              post == Live(MachineNext)
          IN \A i \in DOMAIN pre.cols :
               ~AllNA(pre.cols[i].cells)
                 => (HasCol(post, pre.cols[i].name)
                       <=> 10 * CountNA(pre.cols[i].cells) < 8 * pre.n)]_vars

\* C14: stage 4 of auto_clean fills every missing cell of each column that
\* survived stages 1-3: a numeric column with the mean of its non-missing
\* values (0 when it has none), any other column with its most frequent
\* non-missing value (the first one on ties, "Unknown" when it has none);
\* the cells that were not missing are unchanged.  The stored table holds
\* exactly the rows filled in this way (stage 5 removes repeated rows).
C14_FillsWithMeanOrMode ==
  [][Called({"auto_clean"}) /\ result'.status = "ok"
       => LET d    == AutoCleanDrop(Live(Machine))
              post == Live(MachineNext)
              fill(col) ==
                LET vals == {col.cells[r] : r \in {q \in DOMAIN col.cells :
                                                     ~IsNA(col.cells[q])}}
                    n(c) == Cardinality({r \in DOMAIN col.cells : col.cells[r] = c})
                    most == {c \in vals : \A e \in vals : n(e) <= n(c)}
                IN IF col.dtype \in {"i", "f", "b"}
                   THEN IF vals = {} THEN Num(0)
                        ELSE Num(Div(SumSeq(Values(col.cells)),
                                     Len(Values(col.cells))))
                   ELSE IF vals = {} THEN Str(<<"U", "n", "k", "n", "o", "w", "n">>)
                        ELSE CHOOSE c \in most : \A e \in most \ {c} : CellLess(c, e)
              filled(r) ==
                [i \in DOMAIN d.cols |->
                   IF IsNA(d.cols[i].cells[r]) THEN fill(d.cols[i])
                   ELSE d.cols[i].cells[r]]
          IN /\ Names(post) = Names(d)
             /\ Len(d.cols) > 0
                  => {Row(post, k) : k \in 1..post.n} = {filled(r) : r \in 1..d.n}]_vars

\* auto_clean stored a table in which a missing number was filled with a
\* mean that is not a value of the column
C14_Witness ==
  /\ cleaned = 1
  /\ calls = 1
  /\ result.op = "auto_clean"
  /\ Len(Live(Machine).cols) = 2
  /\ \E r \in 1..Live(Machine).n :
       ColAt(Live(Machine), "x").cells[r] \notin {N(1), N(2), NA}

\* what a successful auto_clean step leaves: a stored table without a
\* missing cell and without a row that repeats an earlier one, and a result
\* whose shapes and counts agree with the tables before and after
AutoCleanSuccessConsistent ==
  LET pre  == Live(Machine)
      post == Live(MachineNext)
      p    == result'.payload
  IN /\ \A i \in DOMAIN post.cols : \A r \in 1..post.n : ~IsNA(post.cols[i].cells[r])
     /\ Len(post.cols) > 0
          => \A r, q \in 1..post.n : Row(post, r) = Row(post, q) => r = q
     /\ check_duplicates(post).duplicate_count = 0
     /\ p.original_shape = <<pre.n, Len(pre.cols)>>
     /\ p.new_shape = <<post.n, Len(post.cols)>>
     /\ p.duplicates_removed >= 0 /\ p.columns_removed >= 0
     /\ p.new_shape[1] = p.original_shape[1] - p.duplicates_removed
     /\ p.new_shape[2] = p.original_shape[2] - p.columns_removed

\* a failed auto_clean step changes no table, no stack and no log entry
AutoCleanFailureChangesNothing ==
  /\ SameTables
  /\ undo_stack' = undo_stack /\ redo_stack' = redo_stack
  /\ local_logs' = local_logs

NumericOnlyStep(c) ==
  \/ result'.op = "standardize_column" /\ standardize_column(c)
  \/ result'.op = "minmax_scale_column" /\ minmax_scale_column(c)
  \/ result'.op = "robust_scale_column" /\ robust_scale_column(c)
  \/ result'.op = "log_transform_column" /\ log_transform_column(c)
  \/ result'.op = "sqrt_transform_column" /\ sqrt_transform_column(c)
  \/ result'.op = "bin_column" /\ \E n \in BinInputs : bin_column(c, n)
  \/ result'.op = "create_polynomial_features"
       /\ \E d \in DegreeInputs : create_polynomial_features(c, d)

\* the step is a call of an encoding operation on the column c
EncodeStep(c) ==
  \/ result'.op = "one_hot_encode_column" /\ one_hot_encode_column(c)
  \/ result'.op = "label_encode_column" /\ label_encode_column(c)

\* the call returned Failure and pushed no snapshot, left redo_stack, the
\* table and the log as they were
FailedWithoutEffect ==
  /\ result'.status = "fail"
  /\ UNCHANGED <<heap, current_dataset, undo_stack, redo_stack, local_logs>>

PCNames(n) == [k \in 1..n |-> "PC_" \o Join(IntChars(k))]

\* the number of int and float columns of df
NumericCount(df) ==
  Cardinality({i \in DOMAIN df.cols : df.cols[i].dtype \in {"i", "f"}})

\* apply_pca(n) must refuse the table df
PCARefused(df, n) == NumericCount(df) < 2 \/ n > NumericCount(df)

\* the call returned Failure and left the table and both stacks as they were
PCAFailedWithoutEffect ==
  /\ result'.status = "fail"
  /\ SameTables
  /\ undo_stack' = undo_stack /\ redo_stack' = redo_stack

\* C17 as stated: apply_pca(n) returns Failure, leaving the table and both
\* stacks unchanged, whenever the table has fewer than 2 numeric columns or
\* n exceeds their number; on Success it appends exactly the columns
\* PC_1..PC_n and changes no existing column and no row order.
C17_AppendsExactlyPCColumns ==
  [][Called({"apply_pca"})
       => \A n \in ComponentInputs :
            LET pre  == Live(Machine)
                post == Live(MachineNext)
            IN apply_pca(n)
                 => /\ PCARefused(pre, n) => PCAFailedWithoutEffect
                    /\ result'.status = "ok"
                         => /\ Names(post) = Names(pre) \o PCNames(n)
                            /\ post.n = pre.n
                            /\ \A i \in DOMAIN pre.cols : post.cols[i] = pre.cols[i]]_vars

\* C17: apply_pca(n) returns Failure, leaving the table and both stacks
\* unchanged, whenever the table has fewer than 2 numeric columns or n
\* exceeds their number (n = 3 with 2 numeric columns); on Success the table
\* holds the columns PC_1..PC_n of the projection, those that were absent
\* appended at the end in order and those that were present overwritten in
\* place, and no other column and no row order is changed.
C17_ApplyPCA ==
  [][Called({"apply_pca"})
       => \A n \in ComponentInputs :
            LET pre  == Live(Machine)
                post == Live(MachineNext)
                old  == {k \in 1..n : HasCol(pre, PCNames(n)[k])}
                new  == SelectIdx([k \in 1..n |-> k \notin old], n, 1)
            IN apply_pca(n)
                 => /\ PCARefused(pre, n) => PCAFailedWithoutEffect
                    /\ result'.status = "ok"
                         => /\ ~PCARefused(pre, n)
                            /\ Names(post) = Names(pre) \o [j \in DOMAIN new |-> PCNames(n)[new[j]]]
                            /\ post.n = pre.n
                            /\ \A i \in DOMAIN pre.cols :
                                 pre.cols[i].name \notin Range(PCNames(n))
                                   => post.cols[i] = pre.cols[i]
                            /\ \A k \in 1..n :
                                 /\ IsSeries(post, PCNames(n)[k])
                                 /\ ColAt(post, PCNames(n)[k]).dtype = "f"
                                 /\ ColAt(post, PCNames(n)[k]).cells = PCAColumn(pre, k)]_vars

\* apply_pca succeeded on a table that already held PC_1: the column was
\* overwritten and no column was appended
C17_Witness ==
  /\ pc = "returned"
  /\ result.op = "apply_pca"
  /\ result.status = "ok"
  /\ undo_stack # <<>>
  /\ LET before == heap[Last(undo_stack)]
         after  == Live(Machine)
     IN /\ HasCol(before, "PC_1")
        /\ Names(after) = Names(before)
        /\ ColAt(after, "PC_1") # ColAt(before, "PC_1")
        /\ ColAt(after, "x") = ColAt(before, "x")

\* the step reads the frame and changes nothing the session holds
ReadOnlyStep ==
  UNCHANGED <<heap, current_dataset, dataset_id, undo_stack, redo_stack, local_logs>>

C19_MissingValueReport ==
  [][Called({"check_missing_values"})
       => LET df  == Live(Machine)
              rep == result'.payload
              nas(i) == Cardinality({r \in 1..df.n : IsNA(df.cols[i].cells[r])})
          IN /\ ReadOnlyStep
             /\ DOMAIN rep = {df.cols[i].name : i \in {j \in DOMAIN df.cols : nas(j) >= 1}}
             /\ \A i \in DOMAIN df.cols :
                  nas(i) >= 1
                    => LET e == rep[df.cols[i].name]
                       IN /\ e.count = nas(i)
                          /\ nas(i) * 100 * SCALE - e.percentage * df.n \in 0..(df.n - 1)
                          /\ e.percentage > 0
                          /\ e.percentage <= 100 * SCALE
                          /\ e.percentage = 100 * SCALE <=> nas(i) = df.n
             /\ (\A i \in DOMAIN df.cols : nas(i) = 0) => rep = <<>>]_vars

\* check_missing_values reported one missing cell of three in x and nothing
\* for the complete column c
C19_Witness ==
  /\ pc = "returned"
  /\ result.op = "check_missing_values"
  /\ Live(Machine).n = 3
  /\ DOMAIN result.payload = {"x"}
  /\ result.payload["x"].count = 1
  /\ result.payload["x"].percentage \in (33 * SCALE)..(34 * SCALE)

\* C20 as stated: check_outliers_iqr returns lower_bound = Q1 - 1.5 * IQR
\* and upper_bound = Q3 + 1.5 * IQR (quartiles by linear interpolation on
\* the sorted values), its outlier_indices are exactly the positions, counted
\* from 0, whose value is strictly below lower_bound or strictly above
\* upper_bound, and outlier_count is their number; a value equal to a bound
\* and a missing cell are never reported.
C20_IndicesArePositions ==
  (pc = "returned" /\ result.op = "check_outliers_iqr" /\ result.status = "ok")
    => LET series == result.payload.series
           rep    == result.payload.report
           vals   == Values(series.cells)
           lower  == LowerTimes(vals, DefaultThreshold)
           upper  == UpperTimes(vals, DefaultThreshold)
           out    == [i \in DOMAIN series.cells |->
                        /\ vals # <<>>
                        /\ ~IsNA(series.cells[i])
                        /\ \/ BoundDen * series.cells[i].v < lower
                           \/ BoundDen * series.cells[i].v > upper]
           where  == SelectIdx(out, Len(out), 1)
       IN /\ vals # <<>> => /\ rep.lower_bound.v = lower
                            /\ rep.upper_bound.v = upper
                            /\ lower <= upper
          /\ rep.outlier_indices = [k \in DOMAIN where |-> where[k] - 1]
          /\ rep.outlier_count = Len(where)

\* the call returned Failure and left the heap, the live reference, both
\* stacks and the log as they were
CleaningFailedWithoutEffect ==
  /\ result'.status = "fail"
  /\ UNCHANGED <<heap, current_dataset, undo_stack, redo_stack, local_logs>>

\* both stacks hold the references and the tables they held
StacksUntouched ==
  /\ undo_stack' = undo_stack
  /\ redo_stack' = redo_stack
  /\ Snapshots(MachineNext) = Snapshots(Machine)

\* C21: fill_missing_with_mean(column) returns Failure and leaves the table
\* unchanged if the column is absent or not numeric; on Success every missing
\* cell of the column holds the mean of the column's non-missing values
\* (a column without values stays missing), that mean is returned as
\* mean_value, and every non-missing cell, every other column, the row order
\* and both stacks are unchanged.  Age = [25, missing, 30, 25] gives 80 / 3.
C21_FillWithMean ==
  [][Called({"fill_missing_with_mean"})
       => \A c \in ColumnInputs :
            fill_missing_with_mean(c)
              => LET pre  == Live(Machine)
                     post == Live(MachineNext)
                     text == \A i \in Sel(pre, c) : pre.cols[i].dtype \notin {"i", "f", "b"}
                 IN /\ IsEmpty(pre) \/ ~HasCol(pre, c) \/ text
                         => CleaningFailedWithoutEffect
                    /\ result'.status = "ok"
                         => LET i     == CHOOSE j \in Sel(pre, c) : TRUE
                                cells == pre.cols[i].cells
                                vals  == Values(cells)
                                exact == \A r \in DOMAIN cells :
                                           cells[r].t \in {"na", "num"}
                                mean  == IF vals = <<>> THEN NA
                                         ELSE Num(Div(SumSeq(vals), Len(vals)))
                            IN /\ Cardinality(Sel(pre, c)) = 1
                               /\ ~text
                               /\ Names(post) = Names(pre)
                               /\ post.n = pre.n
                               /\ \A j \in DOMAIN pre.cols :
                                    j # i => post.cols[j] = pre.cols[j]
                               /\ \A r \in 1..pre.n :
                                    IF IsNA(cells[r])
                                    THEN post.cols[i].cells[r] = result'.payload[1]
                                    ELSE post.cols[i].cells[r] = cells[r]
                               /\ exact => result'.payload[1] = mean
                               /\ StacksUntouched
                    /\ MeanCell(<<N(25), NA, N(30), N(25)>>) = Num((80 * SCALE) \div 3)]_vars

\* fill_missing_with_mean put the mean 2 of [1, missing, 3] into the missing
\* cell while undo_stack held a snapshot
C21_Witness ==
  /\ pc = "returned"
  /\ result.op = "fill_missing_with_mean"
  /\ result.status = "ok"
  /\ result.payload = <<N(2)>>
  /\ ColAt(Live(Machine), "x").cells = <<N(1), N(2), N(3)>>
  /\ undo_stack # <<>>

\* digits with one separator '.', at least one digit, after an optional sign
IsDecimalText(v) ==
  \E s \in 0..1 : \E d \in (s + 1)..Len(v) :
     /\ s = 1 => v[1] \in {"-", "+"}
     /\ v[d] = "."
     /\ \A k \in ((s + 1)..Len(v)) \ {d} : IsDigit(v[k])
     /\ Len(v) - s >= 2

\* at least one digit after an optional sign
IsIntegerText(v) ==
  \E s \in 0..1 :
     /\ s = 1 => Len(v) >= 1 /\ v[1] \in {"-", "+"}
     /\ Len(v) - s >= 1
     /\ \A k \in (s + 1)..Len(v) : IsDigit(v[k])

\* C22: fill_missing_with_custom(column, value) on a numeric column parses
\* value as a decimal number if it contains '.', otherwise as an integer,
\* and fills the missing cells of the column with the parsed number; if the
\* parse fails the call returns Failure and the table is unchanged.  On a
\* column that is not numeric the value is used as given and the call
\* succeeds whatever the value is.
C22_FillWithCustom ==
  [][Called({"fill_missing_with_custom"})
       => \A c \in ColumnInputs : \A v \in RawInputs :
            (fill_missing_with_custom(c, v) /\ IsSeries(Live(Machine), c))
              => LET pre   == Live(Machine)
                     post  == Live(MachineNext)
                     i     == CHOOSE j \in Sel(pre, c) : TRUE
                     cells == pre.cols[i].cells
                     parses == IF \E k \in DOMAIN v : v[k] = "."
                               THEN IsDecimalText(v) ELSE IsIntegerText(v)
                     filled(value) ==
                       /\ result'.status = "ok"
                       /\ result'.payload = <<value>>
                       /\ Names(post) = Names(pre) /\ post.n = pre.n
                       /\ \A j \in DOMAIN pre.cols : j # i => post.cols[j] = pre.cols[j]
                       /\ \A r \in 1..pre.n :
                            post.cols[i].cells[r]
                              = IF IsNA(cells[r]) THEN value ELSE cells[r]
                 IN IF pre.cols[i].dtype \in {"i", "f", "b"}
                    THEN /\ parses => filled(Num(CustomValue(v)))
                         /\ ~parses => CleaningFailedWithoutEffect
                    ELSE filled(Str(v))]_vars

\* the values float() and int() give for some typed texts
C22_ParsedValues ==
  /\ CustomValue(<<"2", ".", "1">>) = 2 * SCALE + SCALE \div 10
  /\ CustomValue(<<"-", ".", "2">>) = -((2 * SCALE) \div 10)
  /\ CustomValue(<<"1", "2", ".">>) = 12 * SCALE
  /\ CustomValue(<<"-", "2", "1">>) = -21 * SCALE
  /\ CustomValue(<<"2">>) = 2 * SCALE

\* the missing cell of the float column x was filled with the parsed 2.1
C22_Witness ==
  /\ C22_ParsedValues
  /\ pc = "returned"
  /\ result.op = "fill_missing_with_custom"
  /\ result.status = "ok"
  /\ result.payload = <<Num(2 * SCALE + SCALE \div 10)>>
  /\ ColAt(Live(Machine), "x").cells = <<N(1), Num(2 * SCALE + SCALE \div 10)>>
  /\ ColAt(Live(Machine), "c").cells = <<S("a"), NA>>

\* the twelve literals of the specification
TwelveLiterals ==
  { <<"?">>, <<"?", "?">>, <<"?", "?", "?">>, <<"n", "a">>, <<"N", "a", "N">>,
    <<"N", "U", "L", "L">>, <<"n", "u", "l", "l">>, <<"-", "-">>, <<>>,
    <<" ">>, <<"n", "o", "n", "e">>, <<"N", "o", "n", "e">> }

\* C23: stage 1 of auto_clean replaces a cell with the missing marker if and
\* only if its value is exactly, case-sensitively, one of the twelve
\* literals; any other value ("NA", "nan", "N/A", " ?") is left as it is, in
\* every column.  On a one-row table this shows in what auto_clean stores: a
\* column whose cell was replaced is dropped, any other column is stored
\* with its cell as it was.
C23_ExactIndicators ==
  [][Called({"auto_clean"}) /\ Live(Machine).n = 1
       => LET pre   == Live(Machine)
              post  == Live(MachineNext)
              stage == ReplaceIndicators(pre)
              literal(c) == c.t = "str" /\ c.s \in TwelveLiterals
          IN /\ Cardinality(TwelveLiterals) = 12
             /\ result'.status = "ok"
             /\ Names(stage) = Names(pre)
             /\ \A i \in DOMAIN pre.cols :
                  LET c == pre.cols[i].cells[1]
                  IN /\ IsNA(stage.cols[i].cells[1]) <=> (literal(c) \/ IsNA(c))
                     /\ ~literal(c) => stage.cols[i].cells[1] = c
                     /\ literal(c) => ~HasCol(post, pre.cols[i].name)
                     /\ ~literal(c) /\ ~IsNA(c)
                          => /\ IsSeries(post, pre.cols[i].name)
                             /\ ColAt(post, pre.cols[i].name) = pre.cols[i]]_vars

\* auto_clean dropped the column c, whose cell was "None", and stored the
\* column d with its cell "NONE" and the numbers of x
C23_Witness ==
  /\ pc = "returned"
  /\ result.op = "auto_clean"
  /\ result.status = "ok"
  /\ calls = 1
  /\ result.payload.columns_removed = 1
  /\ Names(Live(Machine)) = <<"d", "x">>
  /\ ColAt(Live(Machine), "d").cells = <<Str(<<"N", "O", "N", "E">>)>>
  /\ heap = <<Live(Machine)>>

\* the order of the numbers in cells of a float column: a float of magnitude
\* 2^54 lies beyond every small number
CellKey(c) == IF c.t = "huge" THEN c.v * 10 * MaxExact ELSE c.v

\* the rows of cells that hold its minimum
MinRows(cells) ==
  {r \in DOMAIN cells :
     /\ ~IsNA(cells[r])
     /\ \A q \in DOMAIN cells : IsNA(cells[q]) \/ CellKey(cells[r]) <= CellKey(cells[q])}

\* C24 as stated: log_transform_column creates <col>_log and, when the column
\* minimum m is <= 0, first adds abs(m) + 1 to every value, so the smallest
\* shifted value is exactly 1, its logarithm is 0 and no logarithm is taken
\* of a value below 1; when m > 0 no shift is applied.  sqrt_transform_column
\* shifts by abs(m) only when m < 0, so no square root is taken of a negative
\* value.  The original column is unchanged in both cases.
C24_SmallestShiftedValueIsOne ==
  [][Called({"log_transform_column", "sqrt_transform_column"}) /\ result'.status = "ok"
       => \A c \in ColumnInputs :
            LET pre   == Live(Machine)
                post  == Live(MachineNext)
                cells == ColAt(pre, c).cells
                small == \A r \in DOMAIN cells : cells[r].t \in {"na", "num"}
                m     == CellKey(cells[CHOOSE r \in MinRows(cells) : TRUE])
            IN /\ (result'.op = "log_transform_column" /\ log_transform_column(c))
                    => LET out   == ColAt(post, c \o "_log").cells
                           shift == IF m <= 0 THEN Abs(m) + SCALE ELSE 0
                       IN /\ ColAt(post, c) = ColAt(pre, c)
                          /\ IsSeries(post, c \o "_log")
                          /\ \A r \in DOMAIN cells : IsNA(out[r]) <=> IsNA(cells[r])
                          /\ m <= 0 => /\ \A r \in MinRows(cells) : out[r] = Num(0)
                                       /\ \A r \in DOMAIN cells : out[r].t # "-inf"
                          /\ small => \A r \in DOMAIN cells :
                                        ~IsNA(cells[r])
                                          => /\ out[r] = Ln(cells[r].v + shift)
                                             /\ m <= 0 => cells[r].v + shift >= SCALE
               /\ (result'.op = "sqrt_transform_column" /\ sqrt_transform_column(c))
                    => LET out   == ColAt(post, c \o "_sqrt").cells
                           shift == IF m < 0 THEN Abs(m) ELSE 0
                       IN /\ ColAt(post, c) = ColAt(pre, c)
                          /\ IsSeries(post, c \o "_sqrt")
                          /\ \A r \in DOMAIN cells : IsNA(out[r]) <=> IsNA(cells[r])
                          /\ small => \A r \in DOMAIN cells :
                                        ~IsNA(cells[r])
                                          => /\ cells[r].v + shift >= 0
                                             /\ out[r] = Num(ISqrt((cells[r].v + shift) * SCALE))]_vars

\* the indicator columns a successful one_hot_encode_column call appended
Appended(pre, post) == SubSeq(post.cols, Len(pre.cols) + 1, Len(post.cols))

\* C25: a successful one_hot_encode_column(column) keeps every column of the
\* table, the encoded one included, as it was, and appends exactly one
\* indicator column per distinct non-missing value of the column, named
\* column_value; in a row whose value is present exactly one appended
\* indicator is true, the one of its own value, and in a row whose value is
\* missing every appended indicator is false.
C25_OneIndicatorPerCategory ==
  [][Called({"one_hot_encode_column"})
       => \A c \in ColumnInputs :
            (one_hot_encode_column(c) /\ result'.status = "ok")
              => LET pre  == Live(Machine)
                     post == Live(MachineNext)
                     i    == CHOOSE j \in Sel(pre, c) : TRUE
                     col  == pre.cols[i]
                     cats == {x \in Range(col.cells) : ~IsNA(x)}
                     new  == Appended(pre, post)
                     name(x) == c \o "_" \o Join(CellChars(x, col.dtype))
                     on(r) == {j \in DOMAIN new : new[j].cells[r] = Num(SCALE)}
                 IN /\ post.n = pre.n
                    /\ Len(post.cols) = Len(pre.cols) + Cardinality(cats)
                    /\ \A j \in DOMAIN pre.cols : post.cols[j] = pre.cols[j]
                    /\ \A j \in DOMAIN new :
                         \A r \in 1..pre.n : new[j].cells[r] \in {Num(0), Num(SCALE)}
                    /\ \A x \in cats :
                         Cardinality({j \in DOMAIN new : new[j].name = name(x)}) = 1
                    /\ \A r \in 1..pre.n :
                         IF IsNA(col.cells[r]) THEN on(r) = {}
                         ELSE /\ Cardinality(on(r)) = 1
                              /\ \A j \in on(r) : new[j].name = name(col.cells[r])]_vars

\* C26: a successful label_encode_column(column) leaves the table with one
\* integer column column_label in which two rows hold the same code exactly
\* when the strings of their cells in column are equal; the codes used are
\* exactly 0 .. k-1 for k distinct strings, and a missing cell is encoded
\* through its string "nan" like any other value.  Every other column is as
\* it was.
C26_LabelCodes ==
  [][Called({"label_encode_column"})
       => \A c \in ColumnInputs :
            (label_encode_column(c) /\ result'.status = "ok")
              => LET pre   == Live(Machine)
                     post  == Live(MachineNext)
                     col   == ColAt(pre, c)
                     str(r) == CellChars(col.cells[r], col.dtype)
                     k     == Cardinality({str(r) : r \in 1..pre.n})
                     label == c \o "_label"
                     codes == ColAt(post, label).cells
                 IN /\ IsSeries(post, label)
                    /\ ColAt(post, label).dtype = "i"
                    /\ post.n = pre.n
                    /\ \A r, q \in 1..pre.n : codes[r] = codes[q] <=> str(r) = str(q)
                    /\ Range(codes) = {Num(j * SCALE) : j \in 0..(k - 1)}
                    /\ \A r \in 1..pre.n : IsNA(col.cells[r]) => str(r) = <<"n", "a", "n">>
                    /\ Names(post) = IF HasCol(pre, label) THEN Names(pre)
                                     ELSE Append(Names(pre), label)
                    /\ \A j \in DOMAIN pre.cols :
                         pre.cols[j].name # label => post.cols[j] = pre.cols[j]]_vars

\* label_encode_column encoded x = [1.0, missing, 3.0]: the strings "1.0",
\* "3.0" and "nan" got the codes 0, 1 and 2
C26_Witness ==
  /\ pc = "returned"
  /\ result.op = "label_encode_column"
  /\ result.status = "ok"
  /\ HasCol(Live(Machine), "x") /\ HasCol(Live(Machine), "x_label")
  /\ ColAt(Live(Machine), "x").cells = <<N(1), NA, N(3)>>
  /\ ColAt(Live(Machine), "x_label").cells = <<N(0), N(2), N(1)>>

\* the d-th power of a cell as a number: of a small whole number, of 2^e,
\* and otherwise the fixed-point power
PowerOf(cell, d) ==
  IF IsNA(cell) THEN NA
  ELSE IF cell.t = "2^" THEN Pow2(cell.v * d)
  ELSE IF cell.v % SCALE = 0 /\ Abs(cell.v \div SCALE) <= 5
  THEN N((cell.v \div SCALE) ^ d)
  ELSE Pow(cell.v, d)

\* C27: a successful create_polynomial_features(column, degree) leaves the
\* table with exactly the columns column_poly{d} for 2 <= d <= degree beside
\* those it had, each holding the column raised to the d-th power, and
\* changes no other column; for degree < 2 it creates no column and leaves
\* the table unchanged.  In both cases it returns Success, pushes one
\* snapshot of the table onto undo_stack and clears redo_stack.
C27_PolynomialColumns ==
  [][Called({"create_polynomial_features"})
       => \A c \in ColumnInputs : \A d \in PolyDegrees \cup DegreeInputs :
            (create_polynomial_features(c, d) /\ result'.status = "ok")
              => LET pre   == Live(Machine)
                     post  == Live(MachineNext)
                     col   == ColAt(pre, c)
                     name(k) == c \o "_poly" \o Join(IntChars(k))
                     made  == {name(k) : k \in 2..d}
                     exact == \A r \in 1..pre.n : col.cells[r].t \in {"na", "num", "2^"}
                 IN /\ post.n = pre.n
                    /\ Range(Names(post)) = Range(Names(pre)) \cup made
                    /\ Len(post.cols) = Len(pre.cols) + Cardinality(made \ Range(Names(pre)))
                    /\ \A j \in DOMAIN pre.cols :
                         pre.cols[j].name \notin made => post.cols[j] = pre.cols[j]
                    /\ \A k \in 2..d :
                         /\ IsSeries(post, name(k))
                         /\ exact => \A r \in 1..pre.n :
                              ColAt(post, name(k)).cells[r] = PowerOf(col.cells[r], k)
                    /\ d < 2 => post = pre
                    /\ Snapshots(MachineNext) = <<Append(Snapshots(Machine)[1], pre), <<>>>>]_vars

\* C28: no cleaning operation (auto_clean, fill_missing_with_mean / mode /
\* custom, drop_column, remove_duplicates) changes undo_stack or redo_stack,
\* whether it succeeds or fails.  So a cleaning operation cannot be undone on
\* its own: after a forward operation F and a cleaning operation C, undo()
\* leaves the table that was live before F; after F, undo() and C, redo()
\* leaves the table F had produced, and the effect of C is gone from the
\* live table.
C28_CleaningBypassesStacks ==
  /\ [][Called(CleaningOps) => StacksUntouched]_vars
  /\ [](c1.phase = 5 => /\ Live(Machine) = c1.T
                        /\ pc = "returned" => result.status = "ok")
  /\ [](c1.phase = 7 => /\ Live(Machine) = c1.T2
                        /\ pc = "returned" => result.status = "ok")

\* after a forward operation, an undo() and a cleaning operation that changed
\* the table, redo() succeeded: the live table is the one the forward
\* operation had produced and the cleaned table went onto undo_stack
C28_Witness ==
  /\ pc = "returned"
  /\ result.op = "redo"
  /\ c1.phase = 7
  /\ Live(Machine) = c1.T2
  /\ c1.T2 # c1.T
  /\ undo_stack # <<>>
  /\ heap[Last(undo_stack)] # c1.T

\* after a forward operation and a cleaning operation that changed the
\* table, undo() succeeded: the live table is the one from before the forward
\* operation
UndoAfterCleaning ==
  /\ pc = "returned"
  /\ result.op = "undo"
  /\ c1.phase = 5
  /\ Live(Machine) = c1.T
  /\ redo_stack # <<>>
  /\ heap[Last(redo_stack)] # c1.T2

\* C29: setting a new dataset (upload_dataset calling set_dataset) leaves
\* undo_stack and redo_stack holding the tables they held: a load does not
\* clear them.  So an undo() issued after loading a dataset B, while
\* undo_stack still holds the snapshot a forward operation took of dataset A,
\* succeeds and replaces the live table of B with that snapshot of A.
C29_LoadKeepsStacks ==
  /\ [][Called({"upload_dataset"})
          => /\ Snapshots(MachineNext) = Snapshots(Machine)
             /\ Live(MachineNext) \in Uploads]_vars
  /\ [](c1.phase = 8 => undo_stack # <<>> /\ heap[Last(undo_stack)] = c1.T)
  /\ [](c1.phase = 9 => /\ Live(Machine) = c1.T
                        /\ pc = "returned" => result.status = "ok")

\* dataset A was uploaded and changed by a forward operation, dataset B was
\* uploaded, and undo() succeeded: the live table is A as it was uploaded and
\* B went onto redo_stack
C29_Witness ==
  /\ pc = "returned"
  /\ result.op = "undo"
  /\ result.status = "ok"
  /\ c1.phase = 9
  /\ Live(Machine) = c1.T
  /\ Live(Machine) \in Uploads
  /\ redo_stack # <<>>
  /\ heap[Last(redo_stack)] \in Uploads \ {c1.T}

\* auto_clean succeeded and left a table without columns
EmptiedByAutoClean ==
  /\ pc = "returned"
  /\ result.op = "auto_clean"
  /\ result.status = "ok"
  /\ IsEmpty(Live(Machine))

\* the table auto_clean has after its three column-dropping stages
AfterColumnStages(df) == DropBelowThreshold(DropAllMissing(ReplaceIndicators(df)))

\* C30: an empty live table (no rows or no columns) comes out of a non-empty
\* one by successful operations: drop_column of the only column, and an
\* auto_clean that drops every column.  While the live table is empty every
\* cleaning operation and every forward operation returns Failure ("No
\* dataset loaded") and changes neither the table nor the stacks, and
\* get_data_quality_summary gives None; only undo() or redo() with a
\* non-empty stack, or an upload, makes the table non-empty again.
C30_EmptyTable ==
  /\ [](IsEmpty(Live(Machine)) => get_data_quality_summary = <<>>)
  /\ [][Called(FeatureOps \cup CleaningOps) /\ IsEmpty(Live(Machine))
          => /\ result'.status = "fail"
             /\ result'.msg \in {"No dataset loaded",
                                 "No dataset loaded or dataset is empty"}
             /\ UNCHANGED <<heap, current_dataset, undo_stack, redo_stack>>]_vars
  /\ [][IsEmpty(Live(Machine)) /\ ~IsEmpty(Live(MachineNext))
          => \/ result'.op = "undo" /\ undo_stack # <<>>
             \/ result'.op = "redo" /\ redo_stack # <<>>
             \/ result'.op = "upload_dataset"]_vars
  /\ [][Called({"drop_column"})
          => \A c \in ColumnInputs :
               (drop_column(c) /\ Names(Live(Machine)) = <<c>> /\ Live(Machine).n > 0)
                 => result'.status = "ok" /\ IsEmpty(Live(MachineNext))]_vars
  /\ [][Called({"auto_clean"})
          /\ ~IsEmpty(Live(Machine))
          /\ AfterColumnStages(Live(Machine)).cols = <<>>
          => result'.status = "ok" /\ IsEmpty(Live(MachineNext))]_vars

\* a forward or cleaning operation was refused on a table that kept its rows
\* and lost its last column, for which there is no quality summary
C30_Witness ==
  /\ pc = "returned"
  /\ result.op \in FeatureOps \cup CleaningOps
  /\ result.status = "fail"
  /\ result.msg = "No dataset loaded"
  /\ Live(Machine).n > 0
  /\ Live(Machine).cols = <<>>
  /\ get_data_quality_summary = <<>>

\* undo() made an emptied table non-empty again
RefilledByUndo ==
  /\ pc = "returned"
  /\ result.op = "undo"
  /\ result.status = "ok"
  /\ ~IsEmpty(Live(Machine))
  /\ redo_stack = <<>>
  /\ c1.phase = 5

====
